---- MODULE Spec2Model ----
(***************************************************************************)
(* State-machine model of the message bridge of mcp-in-browser.            *)
(*                                                                         *)
(* BridgeClient (src/src/bridge/client.ts) is modelled with its fields as  *)
(* variables and one action per public method, socket event and timer      *)
(* callback.  JavaScript runs every callback to completion, so each        *)
(* handler, with every method it calls, is one atomic action.              *)
(*                                                                         *)
(* TaskQueue (src/unnamed/part_005) is modelled the same way, under its own *)
(* specification TaskSpec: enqueue, the settlement of a running task's     *)
(* operation and clear() are its actions.                                  *)
(*                                                                         *)
(* The relay broker (src/unnamed/part_007) is modelled under BrokerSpec:   *)
(* its actions are a new connection, a frame received on a connection, a   *)
(* socket leaving the open state and the close event.                      *)
(*                                                                         *)
(* RelaySpec wires one orchestrator client to the broker and two executor  *)
(* connections, starting after the three hellos.                           *)
(*                                                                         *)
(* ExecSpec is the executor's call handler (src/src/background/index.ts)   *)
(* dispatching through the task queue.  CacheSpec is the CacheManager      *)
(* (src/src/cache/cache-manager.ts).  FlushSpec is the client with sends   *)
(* that throw while the socket opens.                                      *)
(***************************************************************************)
EXTENDS Integers, Sequences, FiniteSets, TLC

\* ------------------------------------------------------------------ bounds
MaxSteps == 6         \* caller, socket and interval events in one explored run
MaxLimitCfg == 2      \* largest configured messageQueueLimit explored
MaxAttemptsCfg == 1   \* largest configured maxReconnectAttempts explored
MaxTasks == 3         \* tasks submitted to the TaskQueue in one explored run
MaxGlobalCfg == 2     \* largest configured concurrency.maxGlobal explored
MaxPerTabCfg == 2     \* largest configured concurrency.maxPerTab explored
MaxConns == 3         \* connections the broker accepts in one explored run
MaxFrames == 4        \* frames the broker receives in one explored run
MaxRelayRequests == 2  \* requests the orchestrator sends through the relay
MaxPendingRequests == 3  \* requests created in the pending-request table
MaxPendingTime == 2    \* the clock of the pending-request table runs from 0 to this
MaxReconnectSocks == 4  \* sockets created in one explored run of reconnection
MaxSocketFailures == 2  \* sockets that fail before the broker stays reachable

\* ------------------------------------------------------------ JSON values
Undef == "undefined"
Null == "null"
Keys == {"type", "id", "tool", "params", "data", "error", "client", "status"}

\* BridgeMessage: every optional field is present or undefined.
BridgeMessage(type, id, tool, params, data, error, client, status) ==
    [type |-> type, id |-> id, tool |-> tool, params |-> params,
     data |-> data, error |-> error, client |-> client, status |-> status]

\* JSON.stringify drops the fields whose value is undefined; the text is
\* modelled as the set of its key/value pairs.
Stringify(m) == {<<k, m[k]>> : k \in {x \in Keys : m[x] # Undef}}

\* A frame that JSON.parse rejects.
Malformed == {<<"#", "#">>}
ParseOk(t) == t # Malformed

\* JSON.parse: a key missing from the text reads as undefined.
Parse(t) ==
    [k \in Keys |-> IF \E p \in t : p[1] = k
                    THEN (CHOOSE p \in t : p[1] = k)[2]
                    ELSE Undef]

\* JavaScript truthiness of an optional string field.
Truthy(v) == v # Undef /\ v # "" /\ v # Null

\* generateId('req'): timestamp and random bits; the n-th call of a run
\* yields an id distinct from the earlier ones.
generateId(n) == "req-" \o ToString(n)

ClientType == "mcp-server"
HelloMessage == BridgeMessage("hello", Undef, Undef, Undef, Undef, Undef, ClientType, Undef)
ToolCallMessage(id, tool) == BridgeMessage("tool_call", id, tool, "{}", Undef, Undef, Undef, Undef)
ResponseMessage(id, data, error) == BridgeMessage("response", id, Undef, Undef, data, error, Undef, Undef)

\* --------------------------------------------------------------- the state
VARIABLES
    ws,                 \* this.ws: 0 is null, else the socket's number
    sock,               \* readyState of every socket created so far
    isConnected,        \* this.isConnected
    reconnectTimer,     \* this.reconnectTimer is set
    reconnectAttempts,  \* this.reconnectAttempts
    messageQueue,       \* this.messageQueue, with each entry's submission number
    pendingRequests,    \* keys of this.pendingRequests
    timeouts,           \* ids whose setTimeout handle is armed
    future,             \* the promise returned by sendRequest, per id
    sent,               \* history: frames handed to ws.send, in order
    nextReq,            \* number of ids generated
    nextSn,             \* number of envelopes handed to sendMessage
    messageQueueLimit,  \* config.bridge.messageQueueLimit
    maxReconnectAttempts, \* config.bridge.maxReconnectAttempts
    steps,              \* number of events taken so far (bounds the run)
    callerDisconnected, \* history: disconnect() called and no socket opened since
    callerIdle,         \* history: disconnect() called and connect() not called since
    lastEvent           \* history: what the last step was, where a claim needs it

vars == <<ws, sock, isConnected, reconnectTimer, reconnectAttempts, messageQueue,
          pendingRequests, timeouts, future, sent, nextReq, nextSn,
          messageQueueLimit, maxReconnectAttempts, steps, callerDisconnected,
          callerIdle, lastEvent>>

\* ------------------------------------------------- the TaskQueue's state
VARIABLES
    queue,              \* this.queue: the QueuedTask objects still waiting
    running,            \* this.running: ids of the admitted, unsettled tasks
    perTabCount,        \* this.perTabCount: a map, an absent key has no entry
    maxGlobal,          \* config.concurrency.maxGlobal
    maxPerTab,          \* config.concurrency.maxPerTab
    now,                \* Date.now(), relative to the oldest waiting task
    nextTask,           \* number of tasks submitted
    task,               \* per task id the tabId its closure holds until it is
                        \* settled and, as history, the number of calls of its
                        \* operation and the state of its promise
    started             \* history: the tasks the last step admitted, in order

tqVars == <<queue, running, perTabCount, maxGlobal, maxPerTab, now, nextTask, task,
            started>>

\* Task ids: the random suffix of the real id is taken to make ids distinct,
\* and a task is named by its submission number.
TaskIds == 1..MaxTasks

\* An optional number is <<>> (undefined) or <<n>>.
NoTask ==
    [state |-> "none", tabId |-> <<>>, calls |-> 0, settles |-> 0, outcome |-> "none"]

\* new TaskQueue(): the fields' initialisers.
TaskQueueNew ==
    /\ queue = <<>>
    /\ running = {}
    /\ perTabCount = <<>>
    /\ now = 0
    /\ nextTask = 0
    /\ task = [i \in TaskIds |-> NoTask]
    /\ started = <<>>

\* ------------------------------------------------- the broker's state
VARIABLES
    readyState,         \* ws.readyState of every connection accepted so far
    clientType,         \* the clientType variable of every connection's closure
    extensionClients,   \* the Set extensionClients
    mcpServerClient,    \* mcpServerClient, 0 for null
    outbox,             \* history: per connection the frames the broker sent it
    frames,             \* number of frames received
    lastFrame           \* history: the frame the last step received, its
                        \* connection and that connection's clientType before

brokerVars == <<readyState, clientType, extensionClients, mcpServerClient, outbox,
                frames, lastFrame>>

Conns == 1..MaxConns

NoFrame == [conn |-> 0, text |-> Malformed, role |-> Null]

\* The module's top-level state before any connection.
BrokerNew ==
    /\ readyState = [c \in Conns |-> "unused"]
    /\ clientType = [c \in Conns |-> Null]
    /\ extensionClients = {}
    /\ mcpServerClient = 0
    /\ outbox = [c \in Conns |-> <<>>]
    /\ frames = 0
    /\ lastFrame = NoFrame

\* ------------------------------------- the components wired to each other
VARIABLES
    link,               \* how many of the frames each side sent were delivered:
                        \* the client's to the broker, the broker's to the
                        \* client, and per executor how many it has answered
    handled             \* history: the tool_call envelopes the executor's handler
                        \* received, with the task each one queued and the
                        \* responses it handed to sendResponse

wiringVars == <<link, handled>>

NoLink == [toBroker |-> 0, toClient |-> 0, answered |-> [c \in Conns |-> 0]]

WiringNew ==
    /\ link = NoLink
    /\ handled = <<>>

\* CacheManager: the Map in insertion order, the options, the clock Date.now()
\* reads, the getOrSet calls waiting for their factory, and the value the last
\* get or has returned.  accessCount, hitCount and missCount are statistics
\* that no method reads back and are left out.
VARIABLES
    cache,              \* sequence of [key, value, timestamp, ttl, lastAccess]
    options,            \* [maxSize, defaultTTL, maxAge]
    cacheNow,           \* Date.now()
    factories,          \* getOrSet calls between the miss and the set
    ret                 \* what the last get() or has() returned

cacheVars == <<cache, options, cacheNow, factories, ret>>

\* new CacheManager(options)
CacheManagerNew(opts) ==
    /\ cache = <<>>
    /\ options = opts
    /\ cacheNow = 0
    /\ factories = {}
    /\ ret = Undef

\* The options of the cache when a run does not use it.
CacheOptionsUnused == [maxSize |-> 1, defaultTTL |-> 1, maxAge |-> 1]

\* MessageQueue, the pending-request table: the Map in insertion order, the
\* armed timeout handles, the configured limit, the clock, the number of ids
\* generated, and as history how often and how each request's resolve or
\* reject continuation was invoked.
VARIABLES
    pending,            \* sequence of [id, timestamp]
    pendingTimers,      \* ids whose setTimeout handle is armed
    pendingLimit,       \* config.bridge.messageQueueLimit of the table
    pendingNow,         \* Date.now()
    pendingCreated,     \* requests created so far
    invoked             \* history: per id [n, how]

pendingVars == <<pending, pendingTimers, pendingLimit, pendingNow, pendingCreated, invoked>>

PendingIds == 1..MaxPendingRequests
NotInvoked == [n |-> 0, how |-> "none"]

\* new MessageQueue(config)
MessageQueueNew(limit) ==
    /\ pending = <<>>
    /\ pendingTimers = {}
    /\ pendingLimit = limit
    /\ pendingNow = 0
    /\ pendingCreated = 0
    /\ invoked = [id \in PendingIds |-> NotInvoked]

\* A run of MaxSteps events creates at most MaxSteps sockets and ids.
Socks == 1..MaxSteps
ReqIds == {generateId(n) : n \in 1..MaxSteps}

\* The client's fields as one record, so that a handler can be composed of
\* the methods it calls.
St ==
    [ws |-> ws, sock |-> sock, isConnected |-> isConnected,
     reconnectTimer |-> reconnectTimer, reconnectAttempts |-> reconnectAttempts,
     messageQueue |-> messageQueue, pendingRequests |-> pendingRequests,
     timeouts |-> timeouts, future |-> future, sent |-> sent,
     nextReq |-> nextReq, nextSn |-> nextSn]

ClientAssign(s) ==
    /\ ws' = s.ws
    /\ sock' = s.sock
    /\ isConnected' = s.isConnected
    /\ reconnectTimer' = s.reconnectTimer
    /\ reconnectAttempts' = s.reconnectAttempts
    /\ messageQueue' = s.messageQueue
    /\ pendingRequests' = s.pendingRequests
    /\ timeouts' = s.timeouts
    /\ future' = s.future
    /\ sent' = s.sent
    /\ nextReq' = s.nextReq
    /\ nextSn' = s.nextSn
    /\ UNCHANGED <<messageQueueLimit, maxReconnectAttempts>>

\* A step of the client alone.
Commit(s) ==
    /\ ClientAssign(s)
    /\ UNCHANGED tqVars
    /\ UNCHANGED brokerVars
    /\ UNCHANGED wiringVars
    /\ UNCHANGED cacheVars
    /\ UNCHANGED pendingVars

\* kind: "threw" (a sendRequest threw BRIDGE_NOT_CONNECTED), "late" (a response
\* for the already settled request id was handled), "lowered" (setConfig
\* installed a smaller limit, below the queue's length), "other".
Event(kind, id) == [kind |-> kind, id |-> id]

NoFuture == [state |-> "none", by |-> "none", rid |-> Undef, val |-> Undef, settles |-> 0]

\* new BridgeClient(clientType): the fields' initialisers.
BridgeClientNew ==
    /\ ws = 0
    /\ sock = [x \in Socks |-> "unused"]
    /\ isConnected = FALSE
    /\ reconnectTimer = FALSE
    /\ reconnectAttempts = 0
    /\ messageQueue = <<>>
    /\ pendingRequests = {}
    /\ timeouts = {}
    /\ future = [i \in ReqIds |-> NoFuture]
    /\ sent = <<>>
    /\ nextReq = 0
    /\ nextSn = 0
    /\ steps = 0
    /\ callerDisconnected = FALSE
    /\ callerIdle = FALSE
    /\ lastEvent = Event("other", Undef)

\* The client under every configuration; the task queue and the broker are
\* constructed and not used.
Init ==
    /\ BridgeClientNew
    /\ messageQueueLimit \in 0..MaxLimitCfg
    /\ maxReconnectAttempts \in 0..MaxAttemptsCfg
    /\ TaskQueueNew
    /\ maxGlobal = MaxGlobalCfg
    /\ maxPerTab = MaxPerTabCfg
    /\ BrokerNew
    /\ WiringNew
    /\ CacheManagerNew(CacheOptionsUnused)
    /\ MessageQueueNew(0)

\* ------------------------------------------------------------ the methods
\* The lowest-numbered socket not yet created (new WebSocket(url)).
NewSock(s) == CHOOSE x \in Socks : s.sock[x] = "unused" /\ \A y \in Socks : y < x => s.sock[y] # "unused"

\* scheduleReconnect()
scheduleReconnect(s) ==
    IF s.reconnectAttempts >= maxReconnectAttempts
    THEN s
    ELSE IF ~s.reconnectTimer THEN [s EXCEPT !.reconnectTimer = TRUE] ELSE s

\* connect(); throws tells whether new WebSocket(url) throws.
connect(s, throws) ==
    IF s.ws # 0 /\ s.sock[s.ws] = "open"
    THEN s
    ELSE IF throws
         THEN scheduleReconnect(s)
         ELSE [s EXCEPT !.ws = NewSock(s), !.sock[NewSock(s)] = "connecting"]

\* Whether connect() reaches new WebSocket(url).
ConnectCreates(s) == ~(s.ws # 0 /\ s.sock[s.ws] = "open")

\* safeSend(message): the value it returns.
safeSendOk(s) ==
    IF s.ws = 0 \/ ~s.isConnected
    THEN FALSE
    ELSE IF s.sock[s.ws] # "open" THEN FALSE ELSE TRUE

\* safeSend(message): the effect of ws.send(JSON.stringify(message)).
safeSend(s, message, sn, viaQueue) ==
    IF safeSendOk(s)
    THEN [s EXCEPT !.sent = Append(@, [sock |-> s.ws, sn |-> sn,
                                        text |-> Stringify(message),
                                        viaQueue |-> viaQueue])]
    ELSE s

\* Mutant of enqueue: at the limit the newest queued entry is dropped (pop).
enqueueDropNewest(q, limit, entry) ==
    LET kept == IF Len(q) >= limit
                THEN (IF q = <<>> THEN q ELSE SubSeq(q, 1, Len(q) - 1))
                ELSE q
    IN Append(kept, entry)

\* The queue part of sendMessage: drop the oldest entry at the limit, push.
enqueue(q, limit, entry) ==
    LET kept == IF Len(q) >= limit
                THEN (IF q = <<>> THEN q ELSE Tail(q))
                ELSE q
    IN Append(kept, entry)

\* sendMessage(message); the envelope is the (nextSn+1)-th one submitted.
sendMessage(s, message) ==
    LET sn == s.nextSn + 1
        s1 == [s EXCEPT !.nextSn = sn]
    IN IF safeSendOk(s1)
       THEN safeSend(s1, message, sn, FALSE)
       ELSE [s1 EXCEPT !.messageQueue =
                enqueue(@, messageQueueLimit, [sn |-> sn, text |-> Stringify(message)])]

\* Mutant of flushMessageQueue: the queue is drained from its tail (pop).
RECURSIVE flushNewestFirst(_)
flushNewestFirst(s) ==
    IF s.messageQueue = <<>>
    THEN s
    ELSE LET message == s.messageQueue[Len(s.messageQueue)]
             rest == [s EXCEPT !.messageQueue = SubSeq(@, 1, Len(@) - 1)]
         IN IF ~ParseOk(message.text)
            THEN flushNewestFirst(rest)
            ELSE IF ~safeSendOk(rest)
                 THEN s
                 ELSE flushNewestFirst(safeSend(rest, Parse(message.text), message.sn, TRUE))

\* flushMessageQueue()
RECURSIVE flushMessageQueue(_)
flushMessageQueue(s) ==
    IF s.messageQueue = <<>>
    THEN s
    ELSE LET message == Head(s.messageQueue)
             rest == [s EXCEPT !.messageQueue = Tail(@)]
         IN IF ~ParseOk(message.text)
            THEN flushMessageQueue(rest)
            ELSE IF ~safeSendOk(rest)
                 THEN s     \* unshift(message); break
                 ELSE flushMessageQueue(safeSend(rest, Parse(message.text), message.sn, TRUE))

\* Mutant of handleOpen: the queue is flushed before the hello is sent.
handleOpenFlushFirst(s) ==
    LET s1 == [s EXCEPT !.isConnected = TRUE, !.reconnectAttempts = 0]
        s2 == flushMessageQueue(s1)
        s3 == sendMessage(s2, HelloMessage)
    IN [s3 EXCEPT !.reconnectTimer = FALSE]

\* handleOpen()
handleOpen(s) ==
    LET s1 == [s EXCEPT !.isConnected = TRUE, !.reconnectAttempts = 0]
        s2 == sendMessage(s1, HelloMessage)
        s3 == flushMessageQueue(s2)
    IN [s3 EXCEPT !.reconnectTimer = FALSE]

\* handleError()
handleError(s) == [s EXCEPT !.isConnected = FALSE]

\* handleClose()
handleClose(s) == scheduleReconnect([s EXCEPT !.isConnected = FALSE, !.ws = 0])

\* disconnect()
disconnect(s) ==
    LET s1 == [s EXCEPT !.reconnectTimer = FALSE, !.isConnected = FALSE,
                        !.reconnectAttempts = 0]
    IN IF s1.ws # 0
       THEN [s1 EXCEPT !.ws = 0,
                       !.sock[s1.ws] = IF @ \in {"connecting", "open"} THEN "closing" ELSE @]
       ELSE s1

\* pending.resolve / pending.reject / reject of the promise of request id.
settle(s, id, state, by, rid, val) ==
    [s EXCEPT !.future[id] =
        IF @.state = "pending"
        THEN [state |-> state, by |-> by, rid |-> rid, val |-> val, settles |-> @.settles + 1]
        ELSE [@ EXCEPT !.settles = @ + 1]]

\* Mutant of lookupKey: any outstanding request is taken for the response.
lookupKeyAnyPending(s, message) ==
    IF s.pendingRequests = {} THEN message.id ELSE CHOOSE k \in s.pendingRequests : TRUE

\* The key handleMessage looks up for a response envelope.
lookupKey(s, message) == message.id

\* handleMessage(event)
handleMessage(s, text) ==
    IF ~ParseOk(text)
    THEN s
    ELSE LET message == Parse(text)
             key == lookupKey(s, message)
         IN IF message.type = "hello" /\ message.status = "connected"
            THEN s
            ELSE IF message.type = "response" /\ Truthy(message.id)
                 THEN IF key \in s.pendingRequests
                      THEN LET s1 == [s EXCEPT !.timeouts = @ \ {key},
                                               !.pendingRequests = @ \ {key}]
                           IN IF Truthy(message.error)
                              THEN settle(s1, key, "rejected", "response", message.id, message.error)
                              ELSE settle(s1, key, "resolved", "response", message.id,
                                          IF message.data = Undef THEN Null ELSE message.data)
                      ELSE s
                 ELSE s    \* 'error' is logged; anything else goes to messageHandler

\* Mutant of requestTimeout: the table entry is not deleted.
requestTimeoutKeepsEntry(s, id) ==
    settle([s EXCEPT !.timeouts = @ \ {id}], id, "rejected", "timeout", Undef, "Request timeout")

\* The timeout callback of sendRequest.
requestTimeout(s, id) ==
    settle([s EXCEPT !.pendingRequests = @ \ {id}, !.timeouts = @ \ {id}],
           id, "rejected", "timeout", Undef, "Request timeout")

\* Mutant of sendRequestThrows: the guard is missing.
sendRequestNeverThrows(s) == FALSE

\* Mutant of sendRequestThrows: it also throws when the socket cannot send.
sendRequestThrowsUnlessSendable(s) == ~s.isConnected \/ ~safeSendOk(s)

\* Whether sendRequest throws BRIDGE_NOT_CONNECTED.
sendRequestThrows(s) == ~s.isConnected

\* Mutant of sendRequest: no timeout is armed.
sendRequestNoTimer(s, tool) ==
    IF sendRequestThrows(s)
    THEN s
    ELSE LET id == generateId(s.nextReq + 1)
             s1 == [s EXCEPT !.nextReq = @ + 1,
                             !.pendingRequests = @ \cup {id},
                             !.future[id] = [NoFuture EXCEPT !.state = "pending"]]
         IN sendMessage(s1, ToolCallMessage(id, tool))

\* sendRequest(tool, params, timeout)
sendRequest(s, tool) ==
    IF sendRequestThrows(s)
    THEN s
    ELSE LET id == generateId(s.nextReq + 1)
             s1 == [s EXCEPT !.nextReq = @ + 1,
                             !.timeouts = @ \cup {id},
                             !.pendingRequests = @ \cup {id},
                             !.future[id] = [NoFuture EXCEPT !.state = "pending"]]
         IN sendMessage(s1, ToolCallMessage(id, tool))

\* sendResponse(id, data, error)
sendResponse(s, id, data, error) == sendMessage(s, ResponseMessage(id, data, error))

\* clearQueue()
RECURSIVE rejectAll(_, _)
rejectAll(s, ids) ==
    IF ids = {}
    THEN s
    ELSE LET id == CHOOSE i \in ids : TRUE
         IN rejectAll(settle([s EXCEPT !.timeouts = @ \ {id}], id, "rejected", "cleared",
                             Undef, "Connection lost"),
                      ids \ {id})

clearQueue(s) ==
    [rejectAll([s EXCEPT !.messageQueue = <<>>], s.pendingRequests)
        EXCEPT !.pendingRequests = {}]

\* The reconnect interval callback installed by scheduleReconnect.
reconnectTick(s, throws) ==
    IF ~s.isConnected
    THEN connect([s EXCEPT !.reconnectAttempts = @ + 1], throws)
    ELSE [s EXCEPT !.reconnectTimer = FALSE]

\* ------------------------------------------------------------- the inputs
Tools == {"navigate"}
DataValues == {Undef, "d"}
ErrorValues == {Undef, "boom"}
UnknownId == "req-x"

\* Frames the broker may deliver, in any order and any number of times.
\* A response for an id not yet generated is handled like one for UnknownId.
InboundFrames ==
    {Stringify(ResponseMessage(id, d, e)) :
        id \in {generateId(n) : n \in 1..nextReq} \cup {UnknownId, Undef},
        d \in DataValues, e \in ErrorValues}
    \cup {Stringify(BridgeMessage("hello", Undef, Undef, Undef, Undef, Undef, Undef, "connected")),
          Stringify(BridgeMessage("error", Undef, Undef, Undef, Undef, "boom", Undef, Undef)),
          Stringify(ToolCallMessage(UnknownId, "navigate")),
          Malformed}

\* A response frame for a request whose future is already settled.
IsLate(text) ==
    /\ ParseOk(text)
    /\ Parse(text).type = "response"
    /\ Parse(text).id \in ReqIds
    /\ future[Parse(text).id].state \in {"resolved", "rejected"}

\* One more event of the run.
Step == steps < MaxSteps /\ steps' = steps + 1

\* ------------------------------------------------------------ the actions
\* The caller invokes connect().
Connect ==
    \E throws \in BOOLEAN :
        /\ Step
        /\ Commit(connect(St, throws))
        /\ lastEvent' = Event("other", Undef)
        /\ callerIdle' = FALSE
        /\ UNCHANGED callerDisconnected

\* The caller invokes disconnect().
Disconnect ==
    /\ Step
    /\ Commit(disconnect(St))
    /\ callerDisconnected' = TRUE
    /\ callerIdle' = TRUE
    /\ lastEvent' = Event("other", Undef)

\* Socket x reports open.
SockOpen(x) ==
    /\ sock[x] = "connecting"
    /\ Step
    /\ Commit(handleOpen([St EXCEPT !.sock[x] = "open"]))
    /\ callerDisconnected' = FALSE
    /\ UNCHANGED callerIdle
    /\ lastEvent' = Event("other", Undef)

\* Socket x reports an error; its close event follows.
SockError(x) ==
    /\ sock[x] \in {"connecting", "open"}
    /\ Step
    /\ Commit(handleError([St EXCEPT !.sock[x] = "closing"]))
    /\ lastEvent' = Event("other", Undef)
    /\ UNCHANGED <<callerDisconnected, callerIdle>>

\* Socket x reports close.
SockClose(x) ==
    /\ sock[x] \in {"open", "closing"}
    /\ Step
    /\ Commit(handleClose([St EXCEPT !.sock[x] = "closed"]))
    /\ lastEvent' = Event("other", Undef)
    /\ UNCHANGED <<callerDisconnected, callerIdle>>

\* Socket x delivers the frame text.
SockMessageFrame(x, text) ==
    /\ sock[x] = "open"
    /\ Step
    /\ Commit(handleMessage(St, text))
    /\ lastEvent' = IF IsLate(text) THEN Event("late", Parse(text).id) ELSE Event("other", Undef)
    /\ UNCHANGED <<callerDisconnected, callerIdle>>

\* Socket x delivers a frame.
SockMessage(x) == \E text \in InboundFrames : SockMessageFrame(x, text)

\* The reconnect interval fires.
ReconnectTick ==
    \E throws \in BOOLEAN :
        /\ reconnectTimer
        /\ Step
        /\ Commit(reconnectTick(St, throws))
        /\ lastEvent' = Event("other", Undef)
        /\ UNCHANGED <<callerDisconnected, callerIdle>>

\* The timeout of request id fires.
RequestTimeout(id) ==
    /\ id \in timeouts
    /\ UNCHANGED steps
    /\ Commit(requestTimeout(St, id))
    /\ lastEvent' = Event("other", Undef)
    /\ UNCHANGED <<callerDisconnected, callerIdle>>

\* The caller invokes sendRequest(tool, params, timeout).
SendRequest ==
    \E tool \in Tools :
        /\ Step
        /\ Commit(sendRequest(St, tool))
        /\ lastEvent' = IF sendRequestThrows(St) THEN Event("threw", Undef) ELSE Event("other", Undef)
        /\ UNCHANGED <<callerDisconnected, callerIdle>>

\* The caller invokes sendResponse(id, data, error).
SendResponse ==
    \E d \in {"d"}, e \in {Undef} :
        /\ Step
        /\ Commit(sendResponse(St, UnknownId, d, e))
        /\ lastEvent' = Event("other", Undef)
        /\ UNCHANGED <<callerDisconnected, callerIdle>>

\* The caller invokes clearQueue().
ClearQueue ==
    /\ Step
    /\ Commit(clearQueue(St))
    /\ lastEvent' = Event("other", Undef)
    /\ UNCHANGED <<callerDisconnected, callerIdle>>

Next ==
    \/ Connect
    \/ Disconnect
    \/ \E x \in Socks : SockOpen(x)
    \/ \E x \in Socks : SockError(x)
    \/ \E x \in Socks : SockClose(x)
    \/ \E x \in Socks : SockMessage(x)
    \/ ReconnectTick
    \/ \E id \in ReqIds : RequestTimeout(id)
    \/ SendRequest
    \/ SendResponse
    \/ ClearQueue

Spec == Init /\ [][Next]_vars

\* Timers are fair: an armed timeout fires unless it is cleared first.
LiveSpec == Spec /\ \A id \in ReqIds : WF_vars(RequestTimeout(id))

\* ----------------------------------------------------------------- claims
Id1 == generateId(1)
Id2 == generateId(2)
Settled(id) == future[id].state \in {"resolved", "rejected"}

\* C1 (correlation): whatever the arrival order of responses, a future that a
\* response settled was settled by a response carrying that request's own id.
C1_Correlation ==
    \A id \in ReqIds : future[id].by = "response" => future[id].rid = id

\* C1 witness: two requests outstanding, the second one answered first.
C1_Witness ==
    /\ future[Id2].by = "response"
    /\ future[Id1].state = "pending"

\* C2 (settled exactly once): resolve/reject is invoked at most once per request;
\* a pending request has its table entry and its armed timer, a settled one has
\* neither, so a later response finds no entry; handling such a late response
\* changes nothing of the client.
C2_SettledOnce ==
    /\ [](\A id \in ReqIds :
            /\ future[id].settles <= 1
            /\ future[id].state = "pending" => (id \in pendingRequests /\ id \in timeouts /\ future[id].settles = 0)
            /\ Settled(id) => (id \notin pendingRequests /\ id \notin timeouts /\ future[id].settles = 1)
            /\ future[id].state = "none" => (id \notin pendingRequests /\ id \notin timeouts))
    /\ [][lastEvent'.kind = "late" =>
            UNCHANGED <<ws, sock, isConnected, reconnectTimer, reconnectAttempts, messageQueue,
                        pendingRequests, timeouts, future, sent, nextReq, nextSn>>]_vars

\* C2 witness: a response arrived for a request that had already timed out.
C2_Witness ==
    /\ lastEvent.kind = "late"
    /\ future[lastEvent.id].by = "timeout"

\* C3 (every future is settled): under timer fairness a pending request is
\* eventually resolved or rejected, whatever the broker sends or fails to send.
C3_EventuallySettled ==
    \A id \in ReqIds : (future[id].state = "pending") ~> Settled(id)

\* C3 witness: the broker never answered and the timeout settled the request.
C3_Witness ==
    /\ future[Id1].by = "timeout"
    /\ lastEvent.kind = "other"

\* C4 (queue bound, as claimed): the outbound queue never holds more than
\* messageQueueLimit entries, for every limit >= 0.
C4_QueueBound == Len(messageQueue) <= messageQueueLimit

\* A step in which one sendMessage call had to queue its envelope.
QueuedOne == nextSn' = nextSn + 1 /\ sent' = sent

\* C5 (drop-oldest eviction): when sendMessage has to queue and the queue is at
\* the limit, the entry submitted earliest is the one removed, the new envelope is
\* the tail and the surviving entries keep their order.
C5_DropOldest ==
    [][(QueuedOne /\ messageQueue # <<>> /\ Len(messageQueue) >= messageQueueLimit) =>
        /\ \A k \in DOMAIN messageQueue : messageQueue[1].sn <= messageQueue[k].sn
        /\ Len(messageQueue') = Len(messageQueue)
        /\ \A k \in 1..(Len(messageQueue) - 1) : messageQueue'[k] = messageQueue[k + 1]
        /\ messageQueue'[Len(messageQueue')].sn = nextSn']_vars

\* C5 witness: limit 2, three envelopes queued while disconnected, [B, C] left.
C5_Witness ==
    /\ messageQueueLimit = 2
    /\ sent = <<>>
    /\ nextSn = 3
    /\ Len(messageQueue) = 2
    /\ messageQueue[1].sn = 2
    /\ messageQueue[2].sn = 3

IsHelloSent(e) == Parse(e.text).type = "hello" /\ ~e.viaQueue

C7_BoundedReconnect == reconnectAttempts <= maxReconnectAttempts

ClientUnchanged ==
    UNCHANGED <<ws, sock, isConnected, reconnectTimer, reconnectAttempts, messageQueue,
                pendingRequests, timeouts, future, sent, nextReq, nextSn>>

C9_RejectedAfterDisconnect ==
    [][(callerDisconnected /\ SendRequest) => (lastEvent'.kind = "threw" /\ ClientUnchanged)]_vars

\* C9 witness: connected once, then disconnected, then a sendRequest threw.
C9_Witness ==
    /\ callerDisconnected
    /\ lastEvent.kind = "threw"
    /\ sent # <<>>

\* C10 (as claimed): when disconnect() returns the pending-request table is
\* empty and no future is left pending.
C10_DisconnectRejects ==
    [][Disconnect => (pendingRequests' = {} /\ \A id \in ReqIds : future'[id].state # "pending")]_vars

\* C11 (as claimed): after the caller's disconnect() and until the caller's next
\* connect(), no retry timer runs, so no connect() attempt is made on the
\* client's own initiative.
C11_NoReconnectAfterDisconnect == callerIdle => ~reconnectTimer

\* The sockets that are connecting or open.
LiveSocks == {x \in Socks : sock[x] \in {"connecting", "open"}}

\* C12 (as claimed): connect() while a socket is open or still connecting
\* creates no new socket, so at most one socket is connecting or open.
C12_SingleSocket == Cardinality(LiveSocks) <= 1

\* The position in the transmission log of the first envelope sent on socket x.
FirstOn(x) ==
    LET idx == {i \in DOMAIN sent : sent[i].sock = x}
    IN CHOOSE i \in idx : \A j \in idx : i <= j

TQ ==
    [queue |-> queue, running |-> running, perTabCount |-> perTabCount, task |-> task,
     started |-> <<>>]

\* compare() only ever uses differences of enqueuedAt, so the clock and the
\* waiting tasks' times are kept relative to the oldest waiting task.
TaskAssign(q, clock) ==
    /\ LET base == IF q.queue = <<>>
                   THEN clock
                   ELSE CHOOSE b \in {q.queue[i].enqueuedAt : i \in DOMAIN q.queue} :
                            \A i \in DOMAIN q.queue : b <= q.queue[i].enqueuedAt
       IN /\ queue' = [i \in DOMAIN q.queue |-> [q.queue[i] EXCEPT !.enqueuedAt = @ - base]]
          /\ now' = clock - base
    /\ running' = q.running
    /\ perTabCount' = q.perTabCount
    /\ task' = q.task
    /\ started' = q.started
    /\ UNCHANGED <<maxGlobal, maxPerTab>>

\* A step of the task queue alone.
TaskCommit(q, clock) ==
    /\ TaskAssign(q, clock)
    /\ UNCHANGED vars
    /\ UNCHANGED brokerVars
    /\ UNCHANGED wiringVars
    /\ UNCHANGED cacheVars
    /\ UNCHANGED pendingVars

\* Map.get(k) ?? dflt, Map.set(k, v), Map.delete(k)
mapGet(m, k, dflt) == IF k \in DOMAIN m THEN m[k] ELSE dflt
mapSet(m, k, v) == [x \in DOMAIN m \cup {k} |-> IF x = k THEN v ELSE m[x]]
mapDelete(m, k) == [x \in DOMAIN m \ {k} |-> m[x]]

\* The comparator of sortQueue(): higher priority first, then earlier
\* enqueuedAt first.
compare(a, b) ==
    IF b.priority # a.priority
    THEN b.priority - a.priority
    ELSE a.enqueuedAt - b.enqueuedAt

\* Array.prototype.sort is stable: an element goes behind every element that
\* does not sort after it.
RECURSIVE insertSorted(_, _)
insertSorted(sorted, x) ==
    IF sorted = <<>>
    THEN <<x>>
    ELSE IF compare(Head(sorted), x) <= 0
         THEN <<Head(sorted)>> \o insertSorted(Tail(sorted), x)
         ELSE <<x>> \o sorted

\* sortQueue()
RECURSIVE sortQueue(_)
sortQueue(q) ==
    IF q = <<>>
    THEN <<>>
    ELSE insertSorted(sortQueue(SubSeq(q, 1, Len(q) - 1)), q[Len(q)])

\* Mutant of canRun: the global limit is not looked at.
canRunNoGlobal(q, t) ==
    IF t.tabId # <<>>
    THEN ~(mapGet(q.perTabCount, t.tabId[1], 0) >= maxPerTab)
    ELSE TRUE

\* Mutant of canRun: the per-tab limit is not looked at.
canRunNoTab(q, t) == ~(Cardinality(q.running) >= maxGlobal)

\* canRun(task)
canRun(q, t) ==
    IF Cardinality(q.running) >= maxGlobal
    THEN FALSE
    ELSE IF t.tabId # <<>>
         THEN ~(mapGet(q.perTabCount, t.tabId[1], 0) >= maxPerTab)
         ELSE TRUE

\* task.resolve(value) or task.reject(error): a promise keeps its first
\* settlement; every call is counted.  Nothing reads the task object after it.
settleTask(q, id, outcome) ==
    [q EXCEPT !.task[id] =
        [@ EXCEPT !.state = "settled",
                  !.tabId = <<>>,
                  !.settles = @ + 1,
                  !.outcome = IF q.task[id].state = "settled" THEN @ ELSE outcome]]

\* process(): the loop removes the head while it can run, and executeTask()
\* calls the operation at once.  An operation that throws instead of returning
\* a promise is settled inside the same call, whose finally block runs process()
\* before the loop goes on.
RECURSIVE process(_)
RECURSIVE executeTaskFinally(_, _, _)

\* Mutant of startTask: the tab's counter is not incremented.
startTaskNoCount(q, i) ==
    LET t == q.queue[i]
    IN [q EXCEPT !.queue = SubSeq(@, 1, i - 1) \o SubSeq(@, i + 1, Len(@)),
                 !.running = @ \cup {t.id},
                 !.task[t.id].state = "running",
                 !.task[t.id].calls = @ + 1,
                 !.started = Append(@, [id |-> t.id, priority |-> t.priority])]

\* The body of the loop after the canRun test, for the task at position i
\* (the code takes the head, i = 1): remove it, count it, call its operation.
startTask(q, i) ==
    LET t == q.queue[i]
    IN [q EXCEPT !.queue = SubSeq(@, 1, i - 1) \o SubSeq(@, i + 1, Len(@)),
                 !.running = @ \cup {t.id},
                 !.perTabCount =
                     IF t.tabId # <<>>
                     THEN mapSet(@, t.tabId[1], mapGet(@, t.tabId[1], 0) + 1)
                     ELSE @,
                 !.task[t.id].state = "running",
                 !.task[t.id].calls = @ + 1,
                 !.started = Append(@, [id |-> t.id, priority |-> t.priority])]

\* Mutant of process: a head that cannot run is skipped and the first task
\* that can run is started.
RECURSIVE processSkipsBlocked(_)
processSkipsBlocked(q) ==
    LET able == {i \in DOMAIN q.queue : canRun(q, q.queue[i])}
    IN IF able = {}
       THEN q
       ELSE LET i == CHOOSE k \in able : \A l \in able : k <= l
                t == q.queue[i]
            IN IF t.throws
               THEN processSkipsBlocked(executeTaskFinally(startTask(q, i), t, "error"))
               ELSE processSkipsBlocked(startTask(q, i))

process(q) ==
    IF q.queue = <<>>
    THEN q
    ELSE LET head == Head(q.queue)
         IN IF ~canRun(q, head)
            THEN q
            ELSE IF head.throws
                 THEN process(executeTaskFinally(startTask(q, 1), head, "error"))
                 ELSE process(startTask(q, 1))

\* Mutant of executeTaskFinally: the finally block does not call process().
executeTaskNoProcess(q, t, outcome) ==
    LET settled == settleTask(q, t.id, outcome)
        count == IF t.tabId # <<>> THEN mapGet(q.perTabCount, t.tabId[1], 1) ELSE 0
    IN [settled EXCEPT !.running = @ \ {t.id},
                       !.perTabCount =
                           IF t.tabId = <<>>
                           THEN @
                           ELSE IF count <= 1
                                THEN mapDelete(@, t.tabId[1])
                                ELSE mapSet(@, t.tabId[1], count - 1)]

\* executeTask(task) from the point where the operation has settled: resolve
\* or reject, then the finally block.
executeTaskFinally(q, t, outcome) ==
    LET settled == settleTask(q, t.id, outcome)
        count == IF t.tabId # <<>> THEN mapGet(q.perTabCount, t.tabId[1], 1) ELSE 0
        cleaned ==
            [settled EXCEPT !.running = @ \ {t.id},
                            !.perTabCount =
                                IF t.tabId = <<>>
                                THEN @
                                ELSE IF count <= 1
                                     THEN mapDelete(@, t.tabId[1])
                                     ELSE mapSet(@, t.tabId[1], count - 1)]
    IN process(cleaned)

\* Mutant of enqueueTask: the task is pushed and sorted, process() is not called.
enqueueNoProcess(q, t) ==
    LET pushed == [q EXCEPT !.queue = Append(@, t)]
    IN [pushed EXCEPT !.queue = sortQueue(@)]

\* enqueue(fn, options) from the push on.
enqueueTask(q, t) ==
    LET pushed == [q EXCEPT !.queue = Append(@, t)]
        sorted == [pushed EXCEPT !.queue = sortQueue(@)]
    IN process(sorted)

RECURSIVE rejectQueued(_, _)
rejectQueued(q, list) ==
    IF list = <<>>
    THEN q
    ELSE rejectQueued(settleTask(q, Head(list).id, "cleared"), Tail(list))

\* Mutant of clear: the queued tasks are rejected and stay queued.
clearKeepsQueue(q) == rejectQueued(q, q.queue)

\* Mutant of clear: the running set and its counters are emptied as well.
clearAlsoRunning(q) ==
    [rejectQueued(q, q.queue) EXCEPT !.queue = <<>>, !.running = {}, !.perTabCount = <<>>]

\* clear()
clear(q) == [rejectQueued(q, q.queue) EXCEPT !.queue = <<>>]

\* The options a caller passes: tabId and priority are optional.
TabIdOptions == {<<>>, <<1>>, <<2>>}
PriorityOptions == {<<>>, <<1>>}

\* A caller invokes enqueue(fn, {tabId, priority}); throws tells whether fn
\* throws instead of returning a promise.  The clock does not run backwards.
TaskEnqueue(tabId, priority, throws) ==
    /\ nextTask < MaxTasks
    /\ \E dt \in {0, 1} :
        /\ nextTask' = nextTask + 1
        /\ LET id == nextTask + 1
               t == [id |-> id, tabId |-> tabId,
                     priority |-> IF priority = <<>> THEN 0 ELSE priority[1],
                     enqueuedAt |-> now + dt, throws |-> throws]
               submitted ==
                   [TQ EXCEPT !.task[id] =
                       [NoTask EXCEPT !.state = "queued", !.tabId = tabId]]
           IN TaskCommit(enqueueTask(submitted, t), now + dt)

\* The promise returned by a running task's operation settles.
TaskSettle(id, outcome) ==
    /\ id \in running
    /\ task[id].state = "running"
    /\ TaskCommit(executeTaskFinally(TQ, [id |-> id, tabId |-> task[id].tabId], outcome), now)
    /\ UNCHANGED nextTask

\* A caller invokes clear().
TaskClear ==
    /\ TaskCommit(clear(TQ), now)
    /\ UNCHANGED nextTask

TaskNext ==
    \/ \E tabId \in TabIdOptions, priority \in PriorityOptions, throws \in BOOLEAN :
           TaskEnqueue(tabId, priority, throws)
    \/ \E id \in TaskIds, outcome \in {"value", "error"} : TaskSettle(id, outcome)
    \/ TaskClear

\* The task queue under every configuration; the client and the broker are
\* constructed and not used.
TaskInit ==
    /\ TaskQueueNew
    /\ maxGlobal \in 0..MaxGlobalCfg
    /\ maxPerTab \in 0..MaxPerTabCfg
    /\ BridgeClientNew
    /\ messageQueueLimit = 0
    /\ maxReconnectAttempts = 0
    /\ BrokerNew
    /\ WiringNew
    /\ CacheManagerNew(CacheOptionsUnused)
    /\ MessageQueueNew(0)

TaskSpec == TaskInit /\ [][TaskNext]_tqVars

\* The tasks whose operation was called and whose promise is not settled.
Admitted == {id \in TaskIds : task[id].calls > 0 /\ task[id].settles = 0}
AdmittedInTab(tab) == {id \in Admitted : task[id].tabId = <<tab>>}

\* C14 (global cap): never more than maxGlobal tasks are admitted and not yet
\* settled.
C14_GlobalCap == Cardinality(Admitted) <= maxGlobal

\* C14 witness: the global limit is reached and a task without tabId waits.
C14_Witness ==
    /\ Cardinality(Admitted) = maxGlobal
    /\ queue # <<>>
    /\ Head(queue).tabId = <<>>

\* C15 (per-tab cap): never more than maxPerTab admitted, unsettled tasks share
\* a tabId; a waiting task without tabId is held back by the global limit only.
C15_PerTabCap ==
    /\ \A tab \in {1, 2} : Cardinality(AdmittedInTab(tab)) <= maxPerTab
    /\ (queue # <<>> /\ Head(queue).tabId = <<>>) => Cardinality(Admitted) >= maxGlobal

\* C15 witness: a tab is at its limit and its next task waits although the
\* global limit is not reached.
C15_Witness ==
    /\ queue # <<>>
    /\ Head(queue).tabId # <<>>
    /\ Cardinality(AdmittedInTab(Head(queue).tabId[1])) = maxPerTab
    /\ Cardinality(Admitted) < maxGlobal

\* Task a goes before task b: higher priority, or equal priority and submitted
\* earlier (ids are submission numbers).
Ahead(a, b) ==
    \/ a.priority > b.priority
    \/ a.priority = b.priority /\ a.id < b.id

\* C16 (admission order): the tasks a step admits are admitted in
\* priority-then-submission order, and every task still queued after the step
\* is behind each of them, whether or not it could have run; the waiting list
\* itself is kept in that order.
C16_AdmissionOrder ==
    /\ \A i, j \in DOMAIN started : i < j => Ahead(started[i], started[j])
    /\ \A i \in DOMAIN started, k \in DOMAIN queue : Ahead(started[i], queue[k])
    /\ \A k, l \in DOMAIN queue : k < l => Ahead(queue[k], queue[l])

\* C16 witness: the head, of higher priority, waits for its tab while the task
\* behind it could run and stays queued.
C16_Witness ==
    /\ Len(queue) >= 2
    /\ ~canRun(TQ, queue[1])
    /\ canRun(TQ, queue[2])
    /\ queue[1].priority > queue[2].priority

\* C17 (clear): clear() rejects every queued task with the cleared error
\* without calling its operation and empties the waiting list; it leaves the
\* running set, the per-tab counters and the running tasks' promises as they
\* are.  A running task settles with its own result afterwards and leaves the
\* running set; the running set and the counters always match the admitted,
\* unsettled tasks.
C17_ClearOnlyQueued ==
    /\ [][TaskClear =>
            /\ queue' = <<>>
            /\ \A i \in DOMAIN queue :
                   /\ task'[queue[i].id].state = "settled"
                   /\ task'[queue[i].id].outcome = "cleared"
                   /\ task'[queue[i].id].calls = 0
            /\ running' = running
            /\ perTabCount' = perTabCount
            /\ \A id \in running : task'[id] = task[id]]_tqVars
    /\ [][\A id \in TaskIds, outcome \in {"value", "error"} :
            TaskSettle(id, outcome) =>
                /\ task'[id].outcome = outcome
                /\ task'[id].settles = 1
                /\ id \notin running']_tqVars
    /\ [](/\ running = Admitted
          /\ \A tab \in {1, 2} : mapGet(perTabCount, tab, 0) = Cardinality(AdmittedInTab(tab)))

\* C17 witness: a task was cleared while another was running in a tab, and the
\* running one is still running and counted.
C17_Witness ==
    /\ \E id \in TaskIds : task[id].outcome = "cleared"
    /\ \E id \in running : task[id].tabId # <<>> /\ task[id].state = "running"
    /\ queue = <<>>

\* C18 (once): a task's operation is called at most once and its promise is
\* settled at most once: with the operation's value or error after the one call,
\* or with the cleared error and no call at all.
C18_CalledAndSettledOnce ==
    \A id \in TaskIds :
        /\ task[id].calls <= 1
        /\ task[id].settles <= 1
        /\ task[id].state \in {"none", "queued"} => (task[id].calls = 0 /\ task[id].settles = 0)
        /\ task[id].state = "running" => (task[id].calls = 1 /\ task[id].settles = 0)
        /\ task[id].state = "settled" =>
               /\ task[id].settles = 1
               /\ task[id].outcome \in {"value", "error", "cleared"}
               /\ task[id].outcome = "cleared" <=> task[id].calls = 0

\* C18 witness: one task fulfilled, one failed and one was cleared.
C18_Witness ==
    \E a, b, c \in TaskIds :
        /\ task[a].outcome = "value"
        /\ task[b].outcome = "error"
        /\ task[c].outcome = "cleared"

\* -------------------------------------------------------------- the broker
\* The broker's state as one record, so that a handler can be composed.
Br ==
    [readyState |-> readyState, clientType |-> clientType,
     extensionClients |-> extensionClients, mcpServerClient |-> mcpServerClient,
     outbox |-> outbox]

BrokerAssign(b) ==
    /\ readyState' = b.readyState
    /\ clientType' = b.clientType
    /\ extensionClients' = b.extensionClients
    /\ mcpServerClient' = b.mcpServerClient
    /\ outbox' = b.outbox

\* A step of the broker alone.
BrokerCommit(b) ==
    /\ BrokerAssign(b)
    /\ UNCHANGED vars
    /\ UNCHANGED tqVars
    /\ UNCHANGED wiringVars
    /\ UNCHANGED cacheVars
    /\ UNCHANGED pendingVars

\* {type: 'hello', status: 'connected'}
HelloAck == BridgeMessage("hello", Undef, Undef, Undef, Undef, Undef, Undef, "connected")

\* ws.send(JSON.stringify(message)) on connection c
brokerSend(b, c, message) == [b EXCEPT !.outbox[c] = Append(@, Stringify(message))]

\* Mutant of isOpen: the readyState is not looked at.
isOpenAlways(b, c) == TRUE

\* client.readyState === 1
isOpen(b, c) == b.readyState[c] = "open"

\* Mutant of forwardToExtensions: the loop ends after the first client sent to.
forwardToFirstOnly(b, clients, message) ==
    LET open == {x \in clients : b.readyState[x] = "open"}
    IN IF open = {}
       THEN b
       ELSE [b EXCEPT !.outbox[CHOOSE x \in open : \A y \in open : x <= y] =
                          Append(@, Stringify(message))]

\* The loop over extensionClients of the tool_call branch.
RECURSIVE forwardToExtensions(_, _, _)
forwardToExtensions(b, clients, message) ==
    IF clients = {}
    THEN b
    ELSE LET client == CHOOSE x \in clients : \A y \in clients : x <= y
         IN forwardToExtensions(
                IF isOpen(b, client) THEN brokerSend(b, client, message) ELSE b,
                clients \ {client}, message)

\* Mutant of isToolCallFromMcp: the connection's clientType is not looked at.
isToolCallAnyRole(message, role) == message.type = "tool_call"

\* message.type === 'tool_call' && clientType === 'mcp-server'
isToolCallFromMcp(message, role) == message.type = "tool_call" /\ role = "mcp-server"

\* The 'message' handler of connection c.
onMessage(b, c, text) ==
    IF ~ParseOk(text)
    THEN b
    ELSE LET message == Parse(text)
         IN IF message.type = "hello" /\ message.client = "extension"
            THEN brokerSend([b EXCEPT !.clientType[c] = "extension",
                                      !.extensionClients = @ \cup {c}], c, HelloAck)
            ELSE IF message.type = "hello" /\ message.client = "mcp-server"
            THEN brokerSend([b EXCEPT !.clientType[c] = "mcp-server",
                                      !.mcpServerClient = c], c, HelloAck)
            ELSE IF isToolCallFromMcp(message, b.clientType[c])
            THEN forwardToExtensions(b, b.extensionClients, message)
            ELSE IF message.type = "response" /\ b.clientType[c] = "extension"
            THEN IF b.mcpServerClient # 0 /\ isOpen(b, b.mcpServerClient)
                 THEN brokerSend(b, b.mcpServerClient, message)
                 ELSE b
            ELSE b

\* The 'close' handler of connection c.
onClose(b, c) ==
    IF b.clientType[c] = "extension"
    THEN [b EXCEPT !.extensionClients = @ \ {c}]
    ELSE IF b.clientType[c] = "mcp-server"
         THEN [b EXCEPT !.mcpServerClient = 0]
         ELSE b

\* The frames a peer may send: a hello of either role, of an unknown role and
\* without role, a tool_call, a response, and text that is not JSON.
BrokerFrames ==
    {Stringify(BridgeMessage("hello", Undef, Undef, Undef, Undef, Undef, client, Undef)) :
         client \in {"extension", "mcp-server", "popup", Undef}}
    \cup {Stringify(ToolCallMessage("req-1", "navigate")),
          Stringify(ResponseMessage("req-1", "d", Undef)),
          Malformed}

\* wss.on('connection'): the lowest-numbered connection not yet used.
BrokerConnection ==
    /\ \E c \in Conns :
        /\ readyState[c] = "unused"
        /\ \A d \in Conns : d < c => readyState[d] # "unused"
        /\ BrokerCommit([Br EXCEPT !.readyState[c] = "open"])
    /\ lastFrame' = NoFrame
    /\ UNCHANGED frames

\* ws.on('message') of an open connection.
BrokerMessage(c, text) ==
    /\ frames < MaxFrames
    /\ readyState[c] = "open"
    /\ frames' = frames + 1
    /\ lastFrame' = [conn |-> c, text |-> text, role |-> clientType[c]]
    /\ BrokerCommit(onMessage(Br, c, text))

\* A connection's socket leaves the OPEN state; its close event is not yet
\* delivered.
BrokerSocketDown(c) ==
    /\ readyState[c] = "open"
    /\ BrokerCommit([Br EXCEPT !.readyState[c] = "closing"])
    /\ lastFrame' = NoFrame
    /\ UNCHANGED frames

\* ws.on('close')
BrokerClose(c) ==
    /\ readyState[c] \in {"open", "closing"}
    /\ BrokerCommit(onClose([Br EXCEPT !.readyState[c] = "closed"], c))
    /\ lastFrame' = NoFrame
    /\ UNCHANGED frames

BrokerNext ==
    \/ BrokerConnection
    \/ \E c \in Conns, text \in BrokerFrames : BrokerMessage(c, text)
    \/ \E c \in Conns : BrokerSocketDown(c)
    \/ \E c \in Conns : BrokerClose(c)

\* The broker; the client and the task queue are constructed and not used.
BrokerInit ==
    /\ BrokerNew
    /\ WiringNew
    /\ CacheManagerNew(CacheOptionsUnused)
    /\ MessageQueueNew(0)
    /\ BridgeClientNew
    /\ messageQueueLimit = 0
    /\ maxReconnectAttempts = 0
    /\ TaskQueueNew
    /\ maxGlobal = MaxGlobalCfg
    /\ maxPerTab = MaxPerTabCfg

BrokerSpec == BrokerInit /\ [][BrokerNext]_brokerVars

\* The type of the frame the step received, "none" when it is not JSON.
FrameType(f) == IF ParseOk(f.text) THEN Parse(f.text).type ELSE "none"

\* C19 (no role before hello): a connection's clientType is null until a hello
\* of a known role is handled on it, and a tool_call or response received while
\* it is null is forwarded to nobody and changes neither the executor set nor
\* the orchestrator slot.
C19_IgnoredBeforeHello ==
    /\ [][(lastFrame'.conn # 0 /\ lastFrame'.role = Null
              /\ FrameType(lastFrame') \in {"tool_call", "response"})
            => UNCHANGED <<outbox, extensionClients, mcpServerClient, clientType>>]_brokerVars
    /\ [][\A c \in Conns :
            clientType'[c] # clientType[c] =>
                /\ lastFrame'.conn = c
                /\ FrameType(lastFrame') = "hello"
                /\ clientType'[c] = Parse(lastFrame'.text).client]_brokerVars

\* C19 witness: a tool_call has just been received on a connection without
\* role while an executor and an orchestrator were registered and open.
C19_Witness ==
    /\ lastFrame.conn # 0
    /\ lastFrame.role = Null
    /\ FrameType(lastFrame) = "tool_call"
    /\ \E d \in extensionClients : readyState[d] = "open"
    /\ mcpServerClient # 0

\* C20 (broadcast): a tool_call received on a connection whose clientType is
\* 'mcp-server' is sent, as received, to every connection of the executor set
\* that is open and to nothing else; with no open executor nothing is sent.
C20_BroadcastToOpenExecutors ==
    [][(lastFrame'.conn # 0 /\ lastFrame'.role = "mcp-server"
            /\ FrameType(lastFrame') = "tool_call")
        => outbox' = [d \in Conns |->
                         IF d \in extensionClients /\ readyState[d] = "open"
                         THEN Append(outbox[d], lastFrame'.text)
                         ELSE outbox[d]]]_brokerVars

\* C20 witness: an orchestrator's tool_call has just reached an open executor
\* while another registered executor, no longer open, got nothing.
C20_Witness ==
    /\ lastFrame.conn # 0
    /\ lastFrame.role = "mcp-server"
    /\ FrameType(lastFrame) = "tool_call"
    /\ \E d \in extensionClients :
           /\ readyState[d] = "open"
           /\ outbox[d] # <<>>
           /\ outbox[d][Len(outbox[d])] = lastFrame.text
    /\ \E d \in extensionClients :
           /\ readyState[d] = "closing"
           /\ \A i \in DOMAIN outbox[d] : outbox[d][i] # lastFrame.text

\* C21 (as claimed): a response received on a connection whose clientType is
\* 'extension' is sent to the connection in the orchestrator slot, if there is
\* one and it is open, and to nothing else; its receiver is never a member of
\* the executor set; a response received on any other connection is sent to
\* nobody.
C21_ResponseToOrchestratorOnly ==
    [][(lastFrame'.conn # 0 /\ FrameType(lastFrame') = "response") =>
          IF lastFrame'.role = "extension"
                /\ mcpServerClient # 0 /\ readyState[mcpServerClient] = "open"
          THEN /\ outbox' = [outbox EXCEPT ![mcpServerClient] = Append(@, lastFrame'.text)]
               /\ mcpServerClient \notin extensionClients
          ELSE outbox' = outbox]_brokerVars

\* C22 (as claimed): the close event of a connection removes that connection
\* from the executor set and clears the orchestrator slot only when the slot
\* holds that connection.
C22_CloseRemovesOwnRegistration ==
    [][\A c \in Conns :
          BrokerClose(c) =>
              /\ extensionClients' = extensionClients \ {c}
              /\ mcpServerClient' = IF mcpServerClient = c THEN 0 ELSE mcpServerClient]_brokerVars

\* ---------------------------------------------------------------- the relay
\* One orchestrator client, the broker, and two executor peers.  The client's
\* socket 1 is the broker's connection 1; connections 2 and 3 are executors.
OrchestratorConn == 1
ExecutorConns == {2, 3}

\* The client's and the broker's fields as constructed.
StNew ==
    [ws |-> 0, sock |-> [x \in Socks |-> "unused"], isConnected |-> FALSE,
     reconnectTimer |-> FALSE, reconnectAttempts |-> 0, messageQueue |-> <<>>,
     pendingRequests |-> {}, timeouts |-> {}, future |-> [i \in ReqIds |-> NoFuture],
     sent |-> <<>>, nextReq |-> 0, nextSn |-> 0]

BrNew ==
    [readyState |-> [c \in Conns |-> "unused"], clientType |-> [c \in Conns |-> Null],
     extensionClients |-> {}, mcpServerClient |-> 0, outbox |-> [c \in Conns |-> <<>>]]

\* The client after connect() and the open event of its socket.
StRegistered == handleOpen([connect(StNew, FALSE) EXCEPT !.sock[OrchestratorConn] = "open"])

\* The broker after the three connections and their hellos.
BrRegistered ==
    LET helloExtension ==
            Stringify(BridgeMessage("hello", Undef, Undef, Undef, Undef, Undef, "extension", Undef))
        accepted == [BrNew EXCEPT !.readyState =
                        [c \in Conns |-> IF c \in {OrchestratorConn} \cup ExecutorConns
                                         THEN "open" ELSE "unused"]]
        b1 == onMessage(accepted, OrchestratorConn, StRegistered.sent[1].text)
        b2 == onMessage(b1, 2, helloExtension)
    IN onMessage(b2, 3, helloExtension)

\* What the executor's handler answers a tool_call with: the tool's value, or
\* null and the message of what it threw.
ErrorMessages == {"boom", ""}
ExecutorOutcomes ==
    {[data |-> "d", error |-> Undef]} \cup {[data |-> Null, error |-> m] : m \in ErrorMessages}

\* The relay after registration: the hello is delivered, the acks are not.
RelayInit ==
    /\ ws = StRegistered.ws
    /\ sock = StRegistered.sock
    /\ isConnected = StRegistered.isConnected
    /\ reconnectTimer = StRegistered.reconnectTimer
    /\ reconnectAttempts = StRegistered.reconnectAttempts
    /\ messageQueue = StRegistered.messageQueue
    /\ pendingRequests = StRegistered.pendingRequests
    /\ timeouts = StRegistered.timeouts
    /\ future = StRegistered.future
    /\ sent = StRegistered.sent
    /\ nextReq = StRegistered.nextReq
    /\ nextSn = StRegistered.nextSn
    /\ messageQueueLimit = MaxLimitCfg
    /\ maxReconnectAttempts = MaxAttemptsCfg
    /\ steps = 0
    /\ callerDisconnected = FALSE
    /\ callerIdle = FALSE
    /\ lastEvent = Event("other", Undef)
    /\ readyState = BrRegistered.readyState
    /\ clientType = BrRegistered.clientType
    /\ extensionClients = BrRegistered.extensionClients
    /\ mcpServerClient = BrRegistered.mcpServerClient
    /\ outbox = BrRegistered.outbox
    /\ frames = 3
    /\ lastFrame = NoFrame
    /\ link = [NoLink EXCEPT !.toBroker = 1]
    /\ handled = <<>>
    /\ CacheManagerNew(CacheOptionsUnused)
    /\ MessageQueueNew(0)
    /\ TaskQueueNew
    /\ maxGlobal = MaxGlobalCfg
    /\ maxPerTab = MaxPerTabCfg

\* The orchestrator's caller invokes sendRequest.
RelaySendRequest ==
    /\ nextReq < MaxRelayRequests
    /\ SendRequest

\* The next frame the client transmitted reaches the broker.
RelayToBroker ==
    /\ link.toBroker < Len(sent)
    /\ LET text == sent[link.toBroker + 1].text
       IN /\ BrokerAssign(onMessage(Br, OrchestratorConn, text))
          /\ lastFrame' = [conn |-> OrchestratorConn, text |-> text,
                           role |-> clientType[OrchestratorConn]]
    /\ frames' = frames + 1
    /\ link' = [link EXCEPT !.toBroker = @ + 1]
    /\ UNCHANGED <<vars, tqVars, handled, cacheVars, pendingVars>>

\* Executor e takes the next frame the broker sent it; a tool_call is answered
\* with one response of the same id, which reaches the broker.
RelayExecutorAnswers(e, outcome) ==
    /\ link.answered[e] < Len(outbox[e])
    /\ LET frame == Parse(outbox[e][link.answered[e] + 1])
           text == Stringify(ResponseMessage(frame.id, outcome.data, outcome.error))
       IN IF frame.type = "tool_call" /\ Truthy(frame.tool)
          THEN /\ BrokerAssign(onMessage(Br, e, text))
               /\ lastFrame' = [conn |-> e, text |-> text, role |-> clientType[e]]
               /\ frames' = frames + 1
          ELSE UNCHANGED brokerVars
    /\ link' = [link EXCEPT !.answered[e] = @ + 1]
    /\ UNCHANGED <<vars, tqVars, handled, cacheVars, pendingVars>>

\* The next frame the broker sent to the orchestrator reaches the client.
RelayToClient ==
    /\ link.toClient < Len(outbox[OrchestratorConn])
    /\ LET text == outbox[OrchestratorConn][link.toClient + 1]
       IN /\ ClientAssign(handleMessage(St, text))
          /\ lastEvent' = IF IsLate(text) THEN Event("late", Parse(text).id)
                                          ELSE Event("other", Undef)
    /\ link' = [link EXCEPT !.toClient = @ + 1]
    /\ UNCHANGED <<steps, callerDisconnected, callerIdle, tqVars, brokerVars, handled,
                 cacheVars, pendingVars>>

RelayNext ==
    \/ RelaySendRequest
    \/ RelayToBroker
    \/ \E e \in ExecutorConns, outcome \in ExecutorOutcomes : RelayExecutorAnswers(e, outcome)
    \/ RelayToClient
    \/ \E id \in ReqIds : RequestTimeout(id)

relayVars == <<vars, brokerVars, wiringVars>>

RelaySpec == RelayInit /\ [][RelayNext]_relayVars

\* The positions in a sequence of frames of the envelopes of one type and id.
FramesOf(seq, type, id) ==
    {k \in DOMAIN seq : <<"type", type>> \in seq[k] /\ <<"id", id>> \in seq[k]}

\* The executors that have answered the call id.
Answerers(id) ==
    {e \in ExecutorConns : \E k \in FramesOf(outbox[e], "tool_call", id) : k <= link.answered[e]}

\* The responses for id that have reached the client, in order of arrival.
Arrived(id) == {k \in FramesOf(outbox[OrchestratorConn], "response", id) : k <= link.toClient}

\* Every call the broker received went once to each executor; every response
\* an executor gave was forwarded to the orchestrator; a future is settled at
\* most once, and once a response has arrived it is settled, by the first
\* arrival unless its timeout came before.
ForwardedAndSettledOnce ==
    \A n \in 1..nextReq :
        LET id == generateId(n)
            arrived == Arrived(id)
        IN /\ (\E i \in 1..link.toBroker : FramesOf(<<sent[i].text>>, "tool_call", id) # {})
                  => \A e \in ExecutorConns :
                         Cardinality(FramesOf(outbox[e], "tool_call", id)) = 1
           /\ Cardinality(FramesOf(outbox[OrchestratorConn], "response", id))
                  = Cardinality(Answerers(id))
           /\ future[id].settles <= 1
           /\ arrived # {} =>
                  /\ future[id].state \in {"resolved", "rejected"}
                  /\ future[id].settles = 1
                  /\ future[id].by = "response" =>
                         LET first == Parse(outbox[OrchestratorConn][
                                          CHOOSE k \in arrived : \A l \in arrived : k <= l])
                         IN IF future[id].state = "rejected"
                            THEN future[id].val = first.error
                            ELSE future[id].val = first.data

\* C23 (two executors): at all times each call has gone once to each
\* executor, each response has been forwarded, and each future is settled at
\* most once and by the first response to arrive; a later response for the same
\* id changes nothing in the client.
C23_FirstResponseWins ==
    /\ []ForwardedAndSettledOnce
    /\ [][lastEvent'.kind = "late" =>
              UNCHANGED <<future, pendingRequests, timeouts, messageQueue, sent>>]_relayVars

\* C23 witness: both executors' responses for one request have arrived, the
\* second just now; the future was resolved once by a response while another
\* request is still pending.
C23_Witness ==
    \E id, other \in ReqIds :
        /\ Cardinality(Arrived(id)) = 2
        /\ lastEvent = Event("late", id)
        /\ future[id].state = "resolved"
        /\ future[id].by = "response"
        /\ future[id].settles = 1
        /\ other # id
        /\ future[other].state = "pending"
        /\ other \in pendingRequests

\* The first response for id that reached the client.
FirstArrived(id) ==
    Parse(outbox[OrchestratorConn][CHOOSE k \in Arrived(id) : \A l \in Arrived(id) : k <= l])

\* C25 (as claimed): when the response that settles a request carries an error
\* field, whatever the message, the future is rejected with that message.
C25_FailureRejects ==
    \A id \in ReqIds :
        (Arrived(id) # {} /\ future[id].by = "response" /\ FirstArrived(id).error # Undef)
            => (future[id].state = "rejected" /\ future[id].val = FirstArrived(id).error)

\* ------------------------------------------------------------- the executor
\* The background script's call handler dispatching through globalTaskQueue.
\* handled holds one record per envelope the handler received: the task it
\* queued (0 when none), the tab its params designate while its tool handler
\* may run, the response envelopes it handed to sendResponse, and whether the
\* handler has returned.

\* TOOLS: the registered tool names.
TOOLS == {"navigate", "click"}

\* getTool(name): TOOLS[name], undefined for a name that is not registered.
getTool(name) == IF name \in TOOLS THEN name ELSE Undef

\* The tool names and params an inbound envelope can carry.
ToolNames == {Undef, "", "navigate", "nope"}
ParamsOptions == {Undef, "{tabId:1}", "{tabId:2}"}

\* validated.tabId of the tool handlers: the tab the params designate.
paramsTabId(params) ==
    IF params = "{tabId:1}" THEN <<1>> ELSE IF params = "{tabId:2}" THEN <<2>> ELSE <<>>

\* The message of the error the task's promise is rejected with.
RejectionMessage(outcome) ==
    IF outcome = "cleared" THEN "Queue cleared" ELSE "boom"

\* sendResponse(id, result) after the await, sendResponse(id, null, error) in
\* the catch block.
responseFor(id, outcome) ==
    IF outcome = "value"
    THEN ResponseMessage(id, "d", Undef)
    ELSE ResponseMessage(id, Null, RejectionMessage(outcome))

\* The await of enqueue() continues for every call whose task has settled
\* since: the response is sent and the handler returns.
resumeHandlers(h, q) ==
    [i \in DOMAIN h |->
        IF h[i].task # 0 /\ ~h[i].done /\ q.task[h[i].task].state = "settled"
        THEN [h[i] EXCEPT !.responses = Append(@, responseFor(h[i].id, q.task[h[i].task].outcome)),
                          !.tab = <<>>,
                          !.done = TRUE]
        ELSE h[i]]

\* A step of the executor: the task queue and the handler's history.
ExecCommit(q, clock, h) ==
    /\ TaskAssign(q, clock)
    /\ handled' = resumeHandlers(h, q)
    /\ UNCHANGED link
    /\ UNCHANGED cacheVars
    /\ UNCHANGED pendingVars
    /\ UNCHANGED vars
    /\ UNCHANGED brokerVars

\* handleToolCallFromBridge(message) up to its first await.
ExecToolCall(message) ==
    /\ Len(handled) < MaxTasks
    /\ LET call == [id |-> message.id, task |-> 0, tab |-> <<>>, responses |-> <<>>,
                    done |-> TRUE]
       IN IF message.type # "tool_call" \/ ~Truthy(message.tool)
          THEN /\ ExecCommit(TQ, now, Append(handled, call))
               /\ UNCHANGED nextTask
          ELSE IF getTool(message.tool) = Undef
               THEN /\ ExecCommit(TQ, now,
                           Append(handled,
                                  [call EXCEPT !.responses =
                                      <<ResponseMessage(message.id, Null, "Unknown tool")>>]))
                    /\ UNCHANGED nextTask
               ELSE \E dt \in {0, 1} :
                       /\ nextTask' = nextTask + 1
                       /\ LET id == nextTask + 1
                              t == [id |-> id, tabId |-> <<>>, priority |-> 1,
                                    enqueuedAt |-> now + dt, throws |-> FALSE]
                              submitted ==
                                  [TQ EXCEPT !.task[id] = [NoTask EXCEPT !.state = "queued"]]
                          IN ExecCommit(enqueueTask(submitted, t), now + dt,
                                        Append(handled,
                                               [call EXCEPT !.task = id,
                                                            !.tab = paramsTabId(message.params),
                                                            !.done = FALSE]))

\* The promise of a running tool handler settles.
ExecSettle(id, outcome) ==
    /\ id \in running
    /\ task[id].state = "running"
    /\ ExecCommit(executeTaskFinally(TQ, [id |-> id, tabId |-> task[id].tabId], outcome),
                  now, handled)
    /\ UNCHANGED nextTask

\* shutdown(): globalTaskQueue.clear() rejects the waiting calls.
ExecClear ==
    /\ ExecCommit(clear(TQ), now, handled)
    /\ UNCHANGED nextTask

ExecNext ==
    \/ \E tool \in ToolNames, params \in ParamsOptions :
           ExecToolCall(BridgeMessage("tool_call", generateId(Len(handled) + 1), tool, params,
                                      Undef, Undef, Undef, Undef))
    \/ \E id \in TaskIds, outcome \in {"value", "error"} : ExecSettle(id, outcome)
    \/ ExecClear

\* The executor under every configuration that admits a task.
ExecInit ==
    /\ TaskQueueNew
    /\ maxGlobal \in 1..MaxGlobalCfg
    /\ maxPerTab \in 1..MaxPerTabCfg
    /\ BridgeClientNew
    /\ messageQueueLimit = 0
    /\ maxReconnectAttempts = 0
    /\ BrokerNew
    /\ WiringNew
    /\ CacheManagerNew(CacheOptionsUnused)
    /\ MessageQueueNew(0)

execVars == <<tqVars, handled>>

ExecSpec == ExecInit /\ [][ExecNext]_execVars

\* C24 (as claimed): a call never has more than one response, and once its
\* handler has returned it has exactly one, carrying the call's id.
C24_ExactlyOneResponse ==
    \A i \in DOMAIN handled :
        /\ Len(handled[i].responses) <= 1
        /\ \A k \in DOMAIN handled[i].responses : handled[i].responses[k].id = handled[i].id
        /\ handled[i].done => Len(handled[i].responses) = 1

\* The calls whose tool handler has been called and has not settled.
RunningFor(tab) ==
    {i \in DOMAIN handled : /\ handled[i].task # 0
                            /\ handled[i].tab = <<tab>>
                            /\ task[handled[i].task].calls > 0
                            /\ task[handled[i].task].settles = 0}

\* C26 (as claimed): at no time do more than maxPerTab tool handlers whose
\* params designate the same tab run.
C26_PerTabGate ==
    \A tab \in {1, 2} : Cardinality(RunningFor(tab)) <= maxPerTab

\* --------------------------------------------------------- the cache manager
MaxCacheSizeCfg == 2   \* largest configured maxSize explored
MaxCacheTime == 2      \* the clock runs from 0 to this
MaxTtlCfg == 1         \* largest ttl, defaultTTL and maxAge explored

CacheKeys == {"", "a", "b"}
CacheValues == {"v"}

\* The ttl argument of set: left out or a number.
TtlOptions == {<<>>} \cup {<<n>> : n \in 0..MaxTtlCfg}

cacheKeysOf(c) == {c[i].key : i \in DOMAIN c}
cacheIndex(c, key) == CHOOSE i \in DOMAIN c : c[i].key = key
cacheRemoveAt(c, i) == SubSeq(c, 1, i - 1) \o SubSeq(c, i + 1, Len(c))

\* Map.delete(key)
cacheDelete(c, key) ==
    IF key \in cacheKeysOf(c) THEN cacheRemoveAt(c, cacheIndex(c, key)) ELSE c

\* isExpired(entry): a ttl of 0 is falsy and never expires.
isExpired(entry, t) ==
    IF entry.ttl = 0 THEN FALSE ELSE t - entry.timestamp > entry.ttl

\* The loop of evictLRU(): the first entry, in insertion order, whose
\* lastAccess is below that of every entry before it and not above that of any
\* entry after it.
oldestKeyOf(c) ==
    LET i == CHOOSE k \in DOMAIN c :
                 /\ \A l \in DOMAIN c : c[k].lastAccess <= c[l].lastAccess
                 /\ \A l \in 1..(k - 1) : c[l].lastAccess > c[k].lastAccess
    IN c[i].key

\* evictLRU(): if (oldestKey) is false for null and for the empty string.
evictLRU(c) ==
    IF c = <<>>
    THEN c
    ELSE IF oldestKeyOf(c) # "" THEN cacheDelete(c, oldestKeyOf(c)) ELSE c

\* set(key, value, ttl); Map.set keeps the position of a key it already has.
cacheSet(c, opts, key, value, ttl, t) ==
    LET room == IF Len(c) >= opts.maxSize THEN evictLRU(c) ELSE c
        entry == [key |-> key, value |-> value, timestamp |-> t,
                  ttl |-> IF ttl = <<>> THEN opts.defaultTTL ELSE ttl[1],
                  lastAccess |-> t]
    IN IF key \in cacheKeysOf(room)
       THEN [room EXCEPT ![cacheIndex(room, key)] = entry]
       ELSE Append(room, entry)

\* get(key): the cache afterwards and the value returned.
cacheGet(c, key, t) ==
    IF key \notin cacheKeysOf(c)
    THEN [cache |-> c, ret |-> Undef]
    ELSE LET i == cacheIndex(c, key)
         IN IF isExpired(c[i], t)
            THEN [cache |-> cacheDelete(c, key), ret |-> Undef]
            ELSE [cache |-> [c EXCEPT ![i].lastAccess = t], ret |-> c[i].value]

\* has(key)
cacheHas(c, key, t) ==
    IF key \notin cacheKeysOf(c)
    THEN [cache |-> c, ret |-> "false"]
    ELSE IF isExpired(c[cacheIndex(c, key)], t)
         THEN [cache |-> cacheDelete(c, key), ret |-> "false"]
         ELSE [cache |-> c, ret |-> "true"]

\* cleanup(): the entries that are neither expired nor older than maxAge stay.
RECURSIVE cacheCleanup(_, _, _)
cacheCleanup(c, opts, t) ==
    IF c = <<>>
    THEN <<>>
    ELSE LET e == Head(c)
             rest == cacheCleanup(Tail(c), opts, t)
         IN IF isExpired(e, t) \/ t - e.timestamp > opts.maxAge
            THEN rest
            ELSE <<e>> \o rest

\* setMany(entries)
RECURSIVE cacheSetMany(_, _, _, _)
cacheSetMany(c, opts, entries, t) ==
    IF entries = <<>>
    THEN c
    ELSE cacheSetMany(cacheSet(c, opts, Head(entries).key, Head(entries).value,
                               Head(entries).ttl, t),
                      opts, Tail(entries), t)

CacheCommit(c, r) ==
    /\ cache' = c
    /\ ret' = r
    /\ UNCHANGED <<options, cacheNow>>
    /\ UNCHANGED <<vars, tqVars, brokerVars, wiringVars, pendingVars>>

CacheSet(key, value, ttl) ==
    /\ CacheCommit(cacheSet(cache, options, key, value, ttl, cacheNow), Undef)
    /\ UNCHANGED factories

CacheSetMany(entries) ==
    /\ CacheCommit(cacheSetMany(cache, options, entries, cacheNow), Undef)
    /\ UNCHANGED factories

CacheGet(key) ==
    /\ LET r == cacheGet(cache, key, cacheNow) IN CacheCommit(r.cache, r.ret)
    /\ UNCHANGED factories

CacheHas(key) ==
    /\ LET r == cacheHas(cache, key, cacheNow) IN CacheCommit(r.cache, r.ret)
    /\ UNCHANGED factories

CacheDelete(key) ==
    /\ CacheCommit(cacheDelete(cache, key), Undef)
    /\ UNCHANGED factories

CacheClear ==
    /\ CacheCommit(<<>>, Undef)
    /\ UNCHANGED factories

CacheCleanup ==
    /\ CacheCommit(cacheCleanup(cache, options, cacheNow), Undef)
    /\ UNCHANGED factories

\* getOrSet(key, factory, ttl) up to the await: a hit returns, a miss calls
\* the factory.
CacheGetOrSet(key, ttl) ==
    /\ factories = {}
    /\ LET r == cacheGet(cache, key, cacheNow)
       IN /\ CacheCommit(r.cache, r.ret)
          /\ factories' = IF r.ret # Undef THEN factories
                          ELSE factories \cup {[key |-> key, ttl |-> ttl]}

\* The factory of a waiting getOrSet settles: its value is set, or it rejected
\* and nothing is set.
CacheFactorySettles(f, value, ok) ==
    /\ f \in factories
    /\ factories' = factories \ {f}
    /\ CacheCommit(IF ok THEN cacheSet(cache, options, f.key, value, f.ttl, cacheNow)
                         ELSE cache,
                   Undef)

\* Time passes.
CacheTick ==
    /\ cacheNow < MaxCacheTime
    /\ cacheNow' = cacheNow + 1
    /\ UNCHANGED <<cache, options, factories, ret>>
    /\ UNCHANGED <<vars, tqVars, brokerVars, wiringVars, pendingVars>>

CacheNext ==
    \/ \E key \in CacheKeys, value \in CacheValues, ttl \in TtlOptions : CacheSet(key, value, ttl)
    \/ \E k1, k2 \in CacheKeys, value \in CacheValues :
           CacheSetMany(<<[key |-> k1, value |-> value, ttl |-> <<>>],
                          [key |-> k2, value |-> value, ttl |-> <<>>]>>)
    \/ \E key \in CacheKeys : CacheGet(key)
    \/ \E key \in CacheKeys : CacheHas(key)
    \/ \E key \in CacheKeys : CacheDelete(key)
    \/ CacheClear
    \/ CacheCleanup
    \/ \E key \in CacheKeys : CacheGetOrSet(key, <<>>)
    \/ \E f \in factories, value \in CacheValues, ok \in BOOLEAN : CacheFactorySettles(f, value, ok)
    \/ CacheTick

\* A cache constructed with every small configuration.
CacheInit ==
    /\ \E maxSize \in 1..MaxCacheSizeCfg, defaultTTL \in 0..MaxTtlCfg, maxAge \in 1..MaxTtlCfg :
           CacheManagerNew([maxSize |-> maxSize, defaultTTL |-> defaultTTL, maxAge |-> maxAge])
    /\ BridgeClientNew
    /\ messageQueueLimit = 0
    /\ maxReconnectAttempts = 0
    /\ TaskQueueNew
    /\ maxGlobal = MaxGlobalCfg
    /\ maxPerTab = MaxPerTabCfg
    /\ BrokerNew
    /\ WiringNew
    /\ MessageQueueNew(0)

CacheSpec == CacheInit /\ [][CacheNext]_cacheVars

\* C27 (as claimed): a set of a new key into a cache that holds maxSize
\* entries evicts exactly one entry, one whose lastAccess no other entry's is
\* below, keeps every other entry and stores the new key.
C27_EvictsLeastRecentlyUsed ==
    [][\A key \in CacheKeys, value \in CacheValues, ttl \in TtlOptions :
          (CacheSet(key, value, ttl) /\ key \notin cacheKeysOf(cache)
                                     /\ Len(cache) = options.maxSize)
              => \E i \in DOMAIN cache :
                    /\ \A l \in DOMAIN cache : cache[i].lastAccess <= cache[l].lastAccess
                    /\ cacheKeysOf(cache') = (cacheKeysOf(cache) \ {cache[i].key}) \cup {key}
                    /\ \A l \in DOMAIN cache \ {i} :
                          \E m \in DOMAIN cache' : cache'[m] = cache[l]]_cacheVars

\* C28 (as claimed): get(key) of a stored entry returns its value while no
\* more than its ttl has passed since the set; after that get returns
\* undefined, has returns false, and either call removes the entry.
C28_TtlExpiry ==
    [][\A key \in CacheKeys :
          key \in cacheKeysOf(cache) =>
              LET e == cache[cacheIndex(cache, key)]
                  fresh == cacheNow - e.timestamp <= e.ttl
              IN /\ CacheGet(key) =>
                       IF fresh THEN ret' = e.value
                                ELSE ret' = Undef /\ key \notin cacheKeysOf(cache')
                 /\ CacheHas(key) =>
                       (~fresh => ret' = "false" /\ key \notin cacheKeysOf(cache'))]_cacheVars

\* C29 (as claimed): the cache never holds more than maxSize entries.
C29_MaxSize == Len(cache) <= options.maxSize

\* ------------------------------------------------ a send that throws
\* ws.send() can throw on a socket whose readyState is OPEN; safeSend catches
\* it and returns false.  The runs below let a send of handleOpen throw.

\* sendMessage(message) when safeSend returned false: the queue branch.
sendMessageQueued(s, message) ==
    LET sn == s.nextSn + 1
    IN [s EXCEPT !.nextSn = sn,
                 !.messageQueue =
                     enqueue(@, messageQueueLimit, [sn |-> sn, text |-> Stringify(message)])]

\* Mutant of flushMessageQueueSendThrows: the envelope whose send failed is not
\* put back.
RECURSIVE flushDropsFailed(_, _)
flushDropsFailed(s, n) ==
    IF s.messageQueue = <<>>
    THEN s
    ELSE LET message == Head(s.messageQueue)
             rest == [s EXCEPT !.messageQueue = Tail(@)]
         IN IF ~ParseOk(message.text)
            THEN flushDropsFailed(rest, n)
            ELSE IF ~safeSendOk(rest) \/ n = 0
                 THEN rest
                 ELSE flushDropsFailed(safeSend(rest, Parse(message.text), message.sn, TRUE),
                                       n - 1)

\* flushMessageQueue() when ws.send throws after n sends of the loop went
\* through.
RECURSIVE flushMessageQueueSendThrows(_, _)
flushMessageQueueSendThrows(s, n) ==
    IF s.messageQueue = <<>>
    THEN s
    ELSE LET message == Head(s.messageQueue)
             rest == [s EXCEPT !.messageQueue = Tail(@)]
         IN IF ~ParseOk(message.text)
            THEN flushMessageQueueSendThrows(rest, n)
            ELSE IF ~safeSendOk(rest) \/ n = 0
                 THEN s     \* unshift(message); break
                 ELSE flushMessageQueueSendThrows(
                          safeSend(rest, Parse(message.text), message.sn, TRUE), n - 1)

\* handleOpen() up to the flush: the hello is sent, or queued when its send
\* throws.
handleOpenHello(s, helloThrows) ==
    LET s1 == [s EXCEPT !.isConnected = TRUE, !.reconnectAttempts = 0]
    IN IF helloThrows THEN sendMessageQueued(s1, HelloMessage) ELSE sendMessage(s1, HelloMessage)

\* handleOpen() with a send that throws.
handleOpenSendThrows(s, helloThrows, n) ==
    [flushMessageQueueSendThrows(handleOpenHello(s, helloThrows), n)
        EXCEPT !.reconnectTimer = FALSE]

\* Socket x reports open; the hello's send throws or not, and the flush's
\* (n+1)-th send throws.
FlushSockOpen(x, helloThrows, n) ==
    /\ sock[x] = "connecting"
    /\ Step
    /\ LET afterHello == handleOpenHello([St EXCEPT !.sock[x] = "open"], helloThrows)
           result == handleOpenSendThrows([St EXCEPT !.sock[x] = "open"], helloThrows, n)
           flushed == Len(result.sent) - Len(afterHello.sent)
       IN /\ Commit(result)
          /\ lastEvent' = IF 1 <= flushed /\ flushed < Len(afterHello.messageQueue)
                          THEN Event("partial", Undef)
                          ELSE Event("other", Undef)
    /\ callerDisconnected' = FALSE
    /\ UNCHANGED callerIdle

FlushNext ==
    \/ Connect
    \/ SendResponse
    \/ \E x \in Socks, helloThrows \in BOOLEAN, n \in 0..(MaxLimitCfg + 1) :
           FlushSockOpen(x, helloThrows, n)
    \/ \E x \in Socks : SockClose(x)

FlushSpec == Init /\ [][FlushNext]_vars

\* The texts and sequence numbers of the frames sent, in order.
SentEntries(frames_) == [i \in DOMAIN frames_ |-> [sn |-> frames_[i].sn, text |-> frames_[i].text]]

\* C30 (partial flush): when the flush stops at a send that failed, the
\* envelopes it sent before are the head of the queue as it was before the
\* flush, in order, and the queue afterwards is the rest of that queue, the
\* failed envelope first.
C30_PartialFlushKeepsSuffix ==
    [][\A x \in Socks, helloThrows \in BOOLEAN, n \in 0..(MaxLimitCfg + 1) :
          LET afterHello == handleOpenHello([St EXCEPT !.sock[x] = "open"], helloThrows)
              before == afterHello.messageQueue
              flushed == Len(sent') - Len(afterHello.sent)
          IN (FlushSockOpen(x, helloThrows, n) /\ flushed < Len(before))
                 => /\ flushed >= 0
                    /\ messageQueue' = SubSeq(before, flushed + 1, Len(before))
                    /\ Head(messageQueue') = before[flushed + 1]
                    /\ SentEntries(sent') =
                           SentEntries(afterHello.sent) \o SubSeq(before, 1, flushed)]_vars

\* C30 witness: a flush of at least two envelopes has just stopped after the
\* first: one went out through the queue and the queue is not empty.
C30_Witness ==
    /\ lastEvent.kind = "partial"
    /\ messageQueue # <<>>
    /\ sent # <<>>
    /\ sent[Len(sent)].viaQueue
    /\ sent[Len(sent)].sn < messageQueue[1].sn

\* ------------------------------------------------- task queue, further claims
\* The ids in the waiting list.
QueuedIds == {queue[i].id : i \in DOMAIN queue}

\* C32 (bookkeeping): the running set holds exactly the tasks admitted and not
\* settled; perTabCount has an entry exactly for the tabs with running tasks,
\* equal to their number and never 0 or less; no task is both waiting and
\* running; the waiting tasks are exactly those in state queued; and when no
\* admitted task is unsettled the running set and perTabCount are empty.
C32_Bookkeeping ==
    /\ running = Admitted
    /\ \A tab \in {1, 2} : mapGet(perTabCount, tab, 0) = Cardinality(AdmittedInTab(tab))
    /\ \A tab \in DOMAIN perTabCount : tab \in {1, 2} /\ perTabCount[tab] >= 1
    /\ QueuedIds \cap running = {}
    /\ QueuedIds = {id \in TaskIds : task[id].state = "queued"}
    /\ Admitted = {} => (running = {} /\ perTabCount = <<>>)

\* C32 witness: two tasks run in one tab, whose counter is 2, and a third
\* task waits.
C32_Witness ==
    /\ \E tab \in {1, 2} : Cardinality(AdmittedInTab(tab)) = 2 /\ mapGet(perTabCount, tab, 0) = 2
    /\ queue # <<>>

\* C33 (eager admission): after every step the waiting list is empty or its
\* head cannot run: the running set is at maxGlobal or the head's tab is at
\* maxPerTab.
C33_AdmitsEagerly ==
    queue # <<>> =>
        \/ Cardinality(running) >= maxGlobal
        \/ /\ Head(queue).tabId # <<>>
           /\ mapGet(perTabCount, Head(queue).tabId[1], 0) >= maxPerTab

\* C33 witness: maxGlobal is 2 and three tasks without tabId were submitted;
\* the first has settled and the step that settled it admitted the third.
C33_Witness ==
    /\ maxGlobal = 2
    /\ \A id \in TaskIds : task[id].state # "none"
    /\ task[1].state = "settled"
    /\ task[1].outcome # "cleared"
    /\ task[2].state = "running"
    /\ task[3].state = "running"
    /\ started = <<[id |-> 3, priority |-> 0]>>
    /\ perTabCount = <<>>

\* The task queue with limits of at least 1, without clear().
TaskLiveInit ==
    /\ TaskInit
    /\ maxGlobal >= 1
    /\ maxPerTab >= 1

TaskLiveNext ==
    \/ \E tabId \in TabIdOptions, priority \in PriorityOptions, throws \in BOOLEAN :
           TaskEnqueue(tabId, priority, throws)
    \/ \E id \in TaskIds, outcome \in {"value", "error"} : TaskSettle(id, outcome)

\* A step in which the promise of a running operation settles, told by the
\* running set: executeTask's finally block removes the task's id, and no
\* other step removes one (C32).  It is possible exactly while an operation
\* is running.
OperationSettles ==
    /\ running' \in SUBSET TaskIds
    /\ \E id \in running : id \notin running'

\* Every operation that was called settles in the end: while operations are
\* running, one of them settles.
TaskLiveSpec ==
    /\ TaskLiveInit
    /\ [][TaskLiveNext]_tqVars
    /\ WF_running(OperationSettles)

\* C34 (no starvation): only finitely many tasks are submitted, and from some
\* point on every submitted task has had its operation called once and its
\* promise settled once: none is left waiting or running.
C34_EveryTaskSettles ==
    <>[](\A id \in TaskIds :
            task[id].state # "none" =>
                (task[id].state = "settled" /\ task[id].calls = 1 /\ task[id].settles = 1))

\* C34 witness: every task was submitted and has settled after one call, a
\* task submitted later among them.
C34_Witness ==
    \E id \in TaskIds :
        /\ task[id].state = "settled"
        /\ task[id].calls = 1
        /\ \E other \in TaskIds : other > id /\ task[other].state = "settled" /\ task[other].calls = 1
        /\ \A x \in TaskIds : task[x].state = "settled"

\* ------------------------------------------------ the pending-request table
\* maxAge of cleanup(): 5 minutes in the code, one unit of the clock here.
CleanupMaxAge == 1

\* The table with its timers and the history, so that methods compose.
Mq == [pending |-> pending, timers |-> pendingTimers, invoked |-> invoked]

pendingIdsOf(m) == {m.pending[i].id : i \in DOMAIN m.pending}

\* A continuation of request id is invoked.
invoke(m, id, how) ==
    [m EXCEPT !.invoked[id] = [n |-> @.n + 1, how |-> how]]

\* remove(id): clearTimeout and Map.delete; no continuation is invoked.
pendingRemove(m, id) ==
    IF id \notin pendingIdsOf(m)
    THEN m
    ELSE [m EXCEPT !.timers = @ \ {id},
                   !.pending = SelectSeq(@, LAMBDA r : r.id # id)]

\* cleanup(): remove(id) for every request older than maxAge.
RECURSIVE pendingCleanupFrom(_, _, _)
pendingCleanupFrom(m, list, t) ==
    IF list = <<>>
    THEN m
    ELSE pendingCleanupFrom(IF t - Head(list).timestamp > CleanupMaxAge
                            THEN pendingRemove(m, Head(list).id)
                            ELSE m,
                            Tail(list), t)

pendingCleanup(m, t) == pendingCleanupFrom(m, m.pending, t)

\* removeOldest(): remove the first request, in insertion order, with the
\* smallest timestamp.
removeOldest(m) ==
    IF m.pending = <<>>
    THEN m
    ELSE LET i == CHOOSE k \in DOMAIN m.pending :
                      /\ \A l \in DOMAIN m.pending : m.pending[k].timestamp <= m.pending[l].timestamp
                      /\ \A l \in 1..(k - 1) : m.pending[l].timestamp > m.pending[k].timestamp
         IN pendingRemove(m, m.pending[i].id)

\* create(timeoutMs, data) for the new id.
pendingCreate(m, id, limit, t) ==
    LET cleaned == pendingCleanup(m, t)
        room == IF Len(cleaned.pending) >= limit THEN removeOldest(cleaned) ELSE cleaned
    IN [room EXCEPT !.timers = @ \cup {id},
                    !.pending = Append(@, [id |-> id, timestamp |-> t])]

\* resolve(id, value, error)
pendingResolve(m, id, how) ==
    IF id \notin pendingIdsOf(m)
    THEN m
    ELSE invoke([m EXCEPT !.timers = @ \ {id},
                          !.pending = SelectSeq(@, LAMBDA r : r.id # id)],
                id, how)

\* clear(): every request's timer is cleared and its reject is called.
RECURSIVE pendingClearFrom(_, _)
pendingClearFrom(m, list) ==
    IF list = <<>>
    THEN [m EXCEPT !.pending = <<>>]
    ELSE pendingClearFrom(invoke([m EXCEPT !.timers = @ \ {Head(list).id}],
                                 Head(list).id, "cleared"),
                          Tail(list))

pendingClear(m) == pendingClearFrom(m, m.pending)

PendingCommit(m) ==
    /\ pending' = m.pending
    /\ pendingTimers' = m.timers
    /\ invoked' = m.invoked
    /\ UNCHANGED pendingLimit
    /\ UNCHANGED <<vars, tqVars, brokerVars, wiringVars, cacheVars>>

\* A caller invokes create().
PendingCreate ==
    /\ pendingCreated < MaxPendingRequests
    /\ pendingCreated' = pendingCreated + 1
    /\ PendingCommit(pendingCreate(Mq, pendingCreated + 1, pendingLimit, pendingNow))
    /\ UNCHANGED pendingNow

\* A caller invokes resolve(id, value) or resolve(id, null, error).
PendingResolve(id, how) ==
    /\ id \in 1..pendingCreated
    /\ PendingCommit(pendingResolve(Mq, id, how))
    /\ UNCHANGED <<pendingNow, pendingCreated>>

\* The timeout of request id fires: resolve(id, null, new Error('Request timeout')).
PendingTimeout(id) ==
    /\ id \in pendingTimers
    /\ PendingCommit(pendingResolve([Mq EXCEPT !.timers = @ \ {id}], id, "timeout"))
    /\ UNCHANGED <<pendingNow, pendingCreated>>

\* A caller invokes remove(id).
PendingRemove(id) ==
    /\ id \in 1..pendingCreated
    /\ PendingCommit(pendingRemove(Mq, id))
    /\ UNCHANGED <<pendingNow, pendingCreated>>

\* A caller invokes removeOldest().
PendingRemoveOldest ==
    /\ PendingCommit(removeOldest(Mq))
    /\ UNCHANGED <<pendingNow, pendingCreated>>

\* A caller invokes clear().
PendingClear ==
    /\ PendingCommit(pendingClear(Mq))
    /\ UNCHANGED <<pendingNow, pendingCreated>>

\* Time passes.
PendingTick ==
    /\ pendingNow < MaxPendingTime
    /\ pendingNow' = pendingNow + 1
    /\ UNCHANGED <<pending, pendingTimers, pendingLimit, pendingCreated, invoked>>
    /\ UNCHANGED <<vars, tqVars, brokerVars, wiringVars, cacheVars>>

PendingNext ==
    \/ PendingCreate
    \/ \E id \in PendingIds, how \in {"value", "error"} : PendingResolve(id, how)
    \/ \E id \in PendingIds : PendingTimeout(id)
    \/ \E id \in PendingIds : PendingRemove(id)
    \/ PendingRemoveOldest
    \/ PendingClear
    \/ PendingTick

\* A table constructed with every small limit.
PendingInit ==
    /\ \E limit \in 0..MaxLimitCfg : MessageQueueNew(limit)
    /\ BridgeClientNew
    /\ messageQueueLimit = 0
    /\ maxReconnectAttempts = 0
    /\ TaskQueueNew
    /\ maxGlobal = MaxGlobalCfg
    /\ maxPerTab = MaxPerTabCfg
    /\ BrokerNew
    /\ WiringNew
    /\ CacheManagerNew(CacheOptionsUnused)

PendingSpec == PendingInit /\ [][PendingNext]_pendingVars

\* C35 (as claimed): a request is in the table until one of its continuations
\* is invoked, and no continuation is invoked twice: a created request that is
\* no longer in the table has had exactly one invocation, one still in the
\* table none.
C35_LeavesOnlySettled ==
    \A id \in 1..pendingCreated :
        IF id \in pendingIdsOf(Mq)
        THEN invoked[id].n = 0
        ELSE invoked[id].n = 1

\* -------------------------------------------------- the broker, further claims
\* C36 (as claimed): a tool_call is forwarded only when it was received on the
\* connection recorded in the orchestrator slot: a tool_call received on any
\* other connection, a superseded orchestrator included, is sent to nobody.
C36_ForwardsOnlyFromOrchestratorOfRecord ==
    [][(lastFrame'.conn # 0 /\ FrameType(lastFrame') = "tool_call"
            /\ lastFrame'.conn # mcpServerClient)
        => outbox' = outbox]_brokerVars

\* C37 (as claimed): a connection is registered in at most one role and only
\* while it is open: the connection in the orchestrator slot is not in the
\* executor set, and a connection whose close event has been processed is in
\* neither.
C37_OneRoleWhileOpen ==
    /\ mcpServerClient \notin extensionClients
    /\ \A c \in Conns :
           readyState[c] = "closed" => (c \notin extensionClients /\ mcpServerClient # c)

\* ------------------------------------------- the bridge client, further claims
\* Socket x, which is not the client's current socket, reports open, error or
\* close in this step: only a socket event changes the readyState of a socket
\* that exists and is not this.ws.
StaleSocketEvent(x) == sock[x] # "unused" /\ x # ws /\ sock'[x] # sock[x]

\* C38 (as claimed): isConnected holds only while this.ws is set and open, and
\* an event of a socket that is not this.ws changes none of isConnected,
\* this.ws, the reconnect timer and the attempt counter.
C38_ConnectionStateConsistent ==
    /\ [](isConnected => (ws # 0 /\ sock[ws] = "open"))
    /\ [][\A x \in Socks :
             StaleSocketEvent(x) =>
                 UNCHANGED <<isConnected, ws, reconnectTimer, reconnectAttempts>>]_vars

\* C39 (as claimed): every tool_call in the outbound queue has an id that is
\* still in the pending-request table, and no tool_call is handed to ws.send
\* after its request was settled.
C39_NoStaleCall ==
    /\ [](\A i \in DOMAIN messageQueue :
              <<"type", "tool_call">> \in messageQueue[i].text =>
                  \E id \in pendingRequests : <<"id", id>> \in messageQueue[i].text)
    /\ [][\A k \in (Len(sent) + 1)..Len(sent') :
              <<"type", "tool_call">> \in sent'[k].text =>
                  \A id \in ReqIds :
                      <<"id", id>> \in sent'[k].text => ~Settled(id)]_vars

\* ----------------------------------------------- the limit changed at run time
\* The limits setConfig may install: one more than the constructor's, so that
\* a limit can be lowered by two and stay positive.
LimitOptions == 0..(MaxLimitCfg + 1)

\* updateConfig calls bridgeClient.setConfig({bridge}): this.config is
\* replaced, the queue is not looked at.  The step is marked "lowered" when the
\* new limit is below the old one and below the queue's length.
SetConfig(limit, attempts) ==
    /\ Step
    /\ messageQueueLimit' = limit
    /\ maxReconnectAttempts' = attempts
    /\ lastEvent' = IF limit < messageQueueLimit /\ limit < Len(messageQueue)
                    THEN Event("lowered", Undef)
                    ELSE Event("other", Undef)
    /\ UNCHANGED <<ws, sock, isConnected, reconnectTimer, reconnectAttempts, messageQueue,
                   pendingRequests, timeouts, future, sent, nextReq, nextSn,
                   callerDisconnected, callerIdle>>
    /\ UNCHANGED <<tqVars, brokerVars, wiringVars, cacheVars, pendingVars>>

ConfigNext ==
    \/ Connect
    \/ SendResponse
    \/ \E x \in Socks : SockOpen(x)
    \/ \E x \in Socks : SockClose(x)
    \/ \E limit \in LimitOptions, attempts \in 0..MaxAttemptsCfg : SetConfig(limit, attempts)

ConfigInit ==
    /\ BridgeClientNew
    /\ messageQueueLimit \in LimitOptions
    /\ maxReconnectAttempts \in 0..MaxAttemptsCfg
    /\ TaskQueueNew
    /\ maxGlobal = MaxGlobalCfg
    /\ maxPerTab = MaxPerTabCfg
    /\ BrokerNew
    /\ WiringNew
    /\ CacheManagerNew(CacheOptionsUnused)
    /\ MessageQueueNew(0)

ConfigSpec == ConfigInit /\ [][ConfigNext]_vars

\* C40 (as claimed): the first sendMessage that queues after setConfig lowered
\* the limit below the queue's length leaves the queue no longer than the
\* limit.  Stated for a new limit of at least 1, since with the limit 0 an
\* enqueue leaves one entry whatever the limit was before.
C40_BoundRestoredByNextEnqueue ==
    [][(lastEvent.kind = "lowered" /\ messageQueueLimit >= 1
            /\ nextSn' = nextSn + 1 /\ sent' = sent)
        => Len(messageQueue') <= messageQueueLimit']_vars

\* ------------------------------------------------------------- reconnection
\* A socket number is left in the run.
SocketLeft == sock[MaxReconnectSocks] = "unused"

\* The interval callback can run.  The run is kept finite: an attempt is made
\* while attempts are left, and when its connect() would create a socket, while
\* a socket number is left.
TickCanRun ==
    /\ reconnectTimer
    /\ \/ isConnected
       \/ /\ reconnectAttempts < maxReconnectAttempts
          /\ (~ConnectCreates(St) \/ SocketLeft)

\* The reconnect interval fires and new WebSocket(url) does not throw.
ReconnectTickFires ==
    /\ TickCanRun
    /\ Commit(reconnectTick(St, FALSE))
    /\ lastEvent' = Event("other", Undef)
    /\ UNCHANGED <<steps, callerDisconnected, callerIdle>>

\* Socket x reports open.
SocketOpens(x) ==
    /\ sock[x] = "connecting"
    /\ Commit(handleOpen([St EXCEPT !.sock[x] = "open"]))
    /\ callerDisconnected' = FALSE
    /\ lastEvent' = Event("other", Undef)
    /\ UNCHANGED <<steps, callerIdle>>

\* Socket x fails while the broker is not reachable: its error event.
SocketFails(x) ==
    /\ sock[x] \in {"connecting", "open"}
    /\ Cardinality({y \in Socks : sock[y] \in {"closing", "closed"}}) < MaxSocketFailures
    /\ Commit(handleError([St EXCEPT !.sock[x] = "closing"]))
    /\ lastEvent' = Event("other", Undef)
    /\ UNCHANGED <<steps, callerDisconnected, callerIdle>>

\* The close event that follows the error of socket x.
SocketCloses(x) ==
    /\ sock[x] = "closing"
    /\ Commit(handleClose([St EXCEPT !.sock[x] = "closed"]))
    /\ lastEvent' = Event("other", Undef)
    /\ UNCHANGED <<steps, callerDisconnected, callerIdle>>

\* The caller's initial connect() and its sends while nothing is queued; every
\* later connect() is the interval's.  At most MaxSocketFailures sockets fail, so that from some
\* point on the broker is reachable.
ReconnectNext ==
    \/ ((\A x \in Socks : sock[x] = "unused") /\ Connect)
    \/ (messageQueue = <<>> /\ SendResponse)
    \/ \E x \in Socks : SocketFails(x)
    \/ ReconnectTickFires
    \/ \E x \in Socks : SocketOpens(x)
    \/ \E x \in Socks : SocketCloses(x)

\* The configurations that allow a retry.
ReconnectInit ==
    /\ BridgeClientNew
    /\ messageQueueLimit = MaxLimitCfg
    /\ maxReconnectAttempts \in 1..(MaxAttemptsCfg + 2)
    /\ TaskQueueNew
    /\ maxGlobal = MaxGlobalCfg
    /\ maxPerTab = MaxPerTabCfg
    /\ BrokerNew
    /\ WiringNew
    /\ CacheManagerNew(CacheOptionsUnused)
    /\ MessageQueueNew(0)

\* What the scheduling guarantees, as steps of the variables concerned: the
\* interval keeps firing while it is set, a connecting socket opens once the
\* broker is reachable, and a socket's error is followed by its close.
IntervalFires ==
    /\ TickCanRun
    /\ reconnectTimer' = ~isConnected
    /\ reconnectAttempts' = IF isConnected THEN reconnectAttempts ELSE reconnectAttempts + 1

SocketLeaves(x, from, to) ==
    /\ sock[x] = from
    /\ sock' = [sock EXCEPT ![x] = to]

ReconnectSpec ==
    /\ ReconnectInit
    /\ [][ReconnectNext]_vars
    /\ WF_<<reconnectTimer, reconnectAttempts>>(IntervalFires)
    /\ \A x \in Socks : WF_sock(SocketLeaves(x, "connecting", "open"))
    /\ \A x \in Socks : WF_sock(SocketLeaves(x, "closing", "closed"))

\* The connected state the claim describes.
Reconnected ==
    /\ isConnected
    /\ ws # 0
    /\ sock[ws] = "open"
    /\ reconnectAttempts = 0
    /\ ~reconnectTimer
    /\ messageQueue = <<>>
    /\ \E k \in DOMAIN sent : sent[k].sock = ws /\ <<"type", "hello">> \in sent[k].text

\* C31 (as claimed): in a run where the attempts are never used up, a set retry
\* timer leads to the connected state: isConnected with the current socket
\* open, the counter 0, the timer cancelled, the hello sent on the current
\* socket and the outbound queue empty.
C31_ReconnectsEventually ==
    [](reconnectAttempts < maxReconnectAttempts) => (reconnectTimer ~> Reconnected)

====
